---- MODULE Spec2Model ----
(***************************************************************************)
(* The coin wallet of the share-crop backend: the Stripe webhook that      *)
(* credits purchased coins, the balance routes of routes/coins.js, the     *)
(* coinService used by order creation, and the redemption workflow         *)
(* (create / approve / reject) around Stripe transfers.                    *)
(*                                                                         *)
(* The database is PostgreSQL at READ COMMITTED.  A request is a process   *)
(* that moves from one await to the next.  A transaction's statements      *)
(* become visible at its COMMIT; SELECT ... FOR UPDATE takes a row lock     *)
(* that is held until COMMIT or ROLLBACK.  A transaction is modelled with  *)
(* one step per row lock it has to wait for; the statements that follow    *)
(* its last lock acquisition, up to the COMMIT, are one step, because      *)
(* every row they read or write is locked by the transaction.  The lock    *)
(* on a users row is, in every transaction of the program, the last lock   *)
(* taken, so it is never held from one step to the next.  A statement      *)
(* issued on the pool (autocommit) is a step of its own.                   *)
(***************************************************************************)
EXTENDS Integers, Sequences, FiniteSets, TLC

(***************************************************************************)
(* Bounds of the model.                                                    *)
(***************************************************************************)
MaxRequests == 2       \* requests issued in one behaviour
MaxFaults == 1         \* database statements that fail in one behaviour
InitCoins == 2         \* every user's coins at the start
MaxAmount == 3         \* largest amount a request may name

Procs == {"r1", "r2"}                  \* requests in flight at the same time
Users == {"farmer", "buyer"}
NoProc == "none"

(***************************************************************************)
(* State.                                                                  *)
(***************************************************************************)
VARIABLES
    users,                \* users table: [Users -> [coins, locked_coins]]
    coin_transactions,    \* the ledger, in insertion order
    coin_purchases,       \* [PurchaseIds -> [status, user_id, coins_granted, payment_ref]]
    orders,               \* orders table, in insertion order
    notifications,        \* notifications table, in insertion order
    redemption_requests,  \* redemption_requests table; the id is the position
    transfers,            \* Stripe's side: the transfers created, in order
    succeeded,            \* ids for which an approveRedemption call has returned success
    rowLock,              \* FOR UPDATE locks held across awaits: row -> holder
    env,                  \* process.env: which secrets are set
    deployed,             \* which webhook handler is mounted at /api/webhooks/stripe
    req,                  \* [Procs -> the request the process is handling]
    issued,               \* number of requests issued so far
    faults,               \* number of failed database statements so far
    acked,                \* per user: acknowledged credits minus acknowledged debits
    complaints,           \* complaints table: id -> [created_by, status, refund_coins, refunded_at]
    complaint_proofs,     \* complaint_proofs table, in insertion order
    user_payout_methods,  \* user_payout_methods table: the set of its rows
    payout_method_seq     \* the serial behind user_payout_methods.id

dbVars == <<users, coin_transactions, coin_purchases, orders, notifications>>
redeemVars == <<redemption_requests, transfers, succeeded>>
qaVars == <<complaints, complaint_proofs, user_payout_methods, payout_method_seq>>
vars == <<users, coin_transactions, coin_purchases, orders, notifications,
          redemption_requests, transfers, succeeded, rowLock,
          env, deployed, req, issued, faults, acked,
          complaints, complaint_proofs, user_payout_methods, payout_method_seq>>

(***************************************************************************)
(* Requests.                                                               *)
(***************************************************************************)
Idle ==
    [op |-> "none", pc |-> "idle", user |-> "none", amount |-> 0, ref |-> 0,
     read |-> 0, resp |-> 0, msg |-> "", sig |-> "none", etype |-> "none",
     caller |-> "none", rid |-> 0, acct |-> "none", late |-> FALSE,
     status |-> "none", oldStatus |-> "none", rows |-> <<>>, snap |-> {}]

CanStart(p) == req[p].pc \in {"idle", "done"} /\ issued < MaxRequests

\* The response is sent; the value the handler had read is dropped with it.
Respond(r, code, msg) ==
    [r EXCEPT !.pc = "done", !.resp = code, !.msg = msg, !.read = 0]

InFlight(p) == req[p].pc \notin {"idle", "done"}

Quiescent == \A p \in Procs : ~InFlight(p)

CanFail == faults < MaxFaults

(***************************************************************************)
(* The ledger.                                                             *)
(***************************************************************************)
\* rid is not a column: it names the request that inserted the row.
LedgerRow(userId, type, amount, balanceAfter, refType, refId, rid) ==
    [user_id |-> userId, type |-> type, amount |-> amount,
     balance_after |-> balanceAfter, ref_type |-> refType, ref_id |-> refId,
     rid |-> rid]

RowsOf(refType, refId, type) ==
    {i \in 1..Len(coin_transactions) :
        /\ coin_transactions[i].ref_type = refType
        /\ coin_transactions[i].ref_id = refId
        /\ coin_transactions[i].type = type}

(***************************************************************************)
(* Stripe webhook: routes/webhooks.js and its variant unnamed/part_001.    *)
(***************************************************************************)
PurchaseIds == {1, 2}
UnknownSession == 0
WebhookSecret == "whsec"
Signatures == {"whsec", "forged"}
EventTypes == {"checkout.session.completed", "payment_intent.succeeded"}

PurchaseUser(id) == IF id = 1 THEN "farmer" ELSE "buyer"
PurchaseCoins(id) == id

InitPurchases ==
    [id \in PurchaseIds |->
        [status |-> "pending", user_id |-> PurchaseUser(id),
         coins_granted |-> PurchaseCoins(id), payment_ref |-> id]]

\* A handler that takes the event without verifying its signature.
constructEvent_Unverified(sig) == TRUE

\* stripe.webhooks.constructEvent: throws unless the signature header was made
\* with the webhook secret.
constructEvent(sig) == sig = WebhookSecret

WebhookConfigured == env.STRIPE_SECRET_KEY /\ env.STRIPE_WEBHOOK_SECRET

\* SELECT ... FROM coin_purchases WHERE payment_ref = $1
PurchaseBySession(session) ==
    {id \in PurchaseIds : coin_purchases[id].payment_ref = session}

\* The handler up to its first query on coin_purchases, the same in both files:
\* the request as it stands after the idempotency check.
WebhookCheck(r) ==
    IF ~WebhookConfigured THEN Respond(r, 500, "Webhook not configured")
    ELSE IF ~constructEvent(r.sig) THEN Respond(r, 400, "Webhook Error")
    ELSE IF r.etype # "checkout.session.completed" THEN Respond(r, 200, "received")
    ELSE IF PurchaseBySession(r.ref) = {} THEN Respond(r, 400, "Purchase record not found")
    ELSE LET existing == coin_purchases[CHOOSE id \in PurchaseBySession(r.ref) : TRUE]
         IN  IF existing.status = "completed"
             THEN Respond(r, 200, "already_processed")
             ELSE [r EXCEPT !.pc = "begin", !.user = existing.user_id,
                            !.amount = existing.coins_granted]

WebhookReceive(p) ==
    /\ CanStart(p)
    /\ \E sig \in Signatures, etype \in EventTypes, session \in PurchaseIds \cup {UnknownSession} :
          req' = [req EXCEPT ![p] =
                    WebhookCheck([Idle EXCEPT !.op = deployed, !.sig = sig,
                                              !.etype = etype, !.ref = session,
                                              !.rid = issued + 1])]
    /\ issued' = issued + 1
    /\ UNCHANGED <<qaVars, redeemVars, dbVars, rowLock, env, deployed, faults, acked>>

\* routes/webhooks.js: BEGIN; SELECT ... FROM coin_purchases FOR UPDATE; re-check.
WebhookLockPurchase(p) ==
    /\ req[p].op = "webhooks.js" /\ req[p].pc = "begin"
    /\ rowLock[req[p].ref] = NoProc
    /\ IF coin_purchases[req[p].ref].status = "completed"
       THEN /\ req' = [req EXCEPT ![p] = Respond(req[p], 200, "already_processed")]
            /\ UNCHANGED rowLock
       ELSE /\ req' = [req EXCEPT ![p].pc = "lock_user"]
            /\ rowLock' = [rowLock EXCEPT ![req[p].ref] = p]
    /\ UNCHANGED <<qaVars, redeemVars, dbVars, env, deployed, issued, faults, acked>>

\* routes/webhooks.js: SELECT coins FOR UPDATE; UPDATE users; INSERT ledger row;
\* UPDATE coin_purchases; COMMIT.
WebhookCredit(p) ==
    /\ req[p].op = "webhooks.js" /\ req[p].pc = "lock_user"
    /\ LET r == req[p]
           balanceAfter == users[r.user].coins + r.amount
       IN  /\ users' = [users EXCEPT ![r.user].coins = balanceAfter]
           /\ coin_transactions' = Append(coin_transactions,
                  LedgerRow(r.user, "credit", r.amount, balanceAfter, "coin_purchase", r.ref, r.rid))
           /\ coin_purchases' = [coin_purchases EXCEPT ![r.ref].status = "completed"]
           /\ rowLock' = [rowLock EXCEPT ![r.ref] = NoProc]
           /\ req' = [req EXCEPT ![p] = Respond(r, 200, "received")]
    /\ UNCHANGED <<qaVars, redeemVars, orders, notifications, env, deployed, issued, faults, acked>>

\* routes/webhooks.js: a statement of the transaction fails: ROLLBACK, 500.
WebhookRollback(p) ==
    /\ req[p].op = "webhooks.js" /\ req[p].pc = "lock_user"
    /\ CanFail
    /\ faults' = faults + 1
    /\ rowLock' = [rowLock EXCEPT ![req[p].ref] = NoProc]
    /\ req' = [req EXCEPT ![p] = Respond(req[p], 500, "Webhook processing failed")]
    /\ UNCHANGED <<qaVars, redeemVars, dbVars, env, deployed, issued, acked>>

\* unnamed/part_001: SELECT coins FROM users, on the pool, no lock.
VariantReadUser(p) ==
    /\ req[p].op = "part_001" /\ req[p].pc = "begin"
    /\ req' = [req EXCEPT ![p].read = users[req[p].user].coins, ![p].pc = "update_user"]
    /\ UNCHANGED <<qaVars, redeemVars, dbVars, rowLock, env, deployed, issued, faults, acked>>

\* unnamed/part_001: UPDATE users SET coins = $1, the balance read plus the coins.
VariantUpdateUser(p) ==
    /\ req[p].op = "part_001" /\ req[p].pc = "update_user"
    /\ users' = [users EXCEPT ![req[p].user].coins = req[p].read + req[p].amount]
    /\ req' = [req EXCEPT ![p].pc = "insert_ledger"]
    /\ UNCHANGED <<qaVars, redeemVars, coin_transactions, coin_purchases, orders, notifications, rowLock, env,
                   deployed, issued, faults, acked>>

\* unnamed/part_001: INSERT INTO coin_transactions.
VariantInsertLedger(p) ==
    /\ req[p].op = "part_001" /\ req[p].pc = "insert_ledger"
    /\ coin_transactions' = Append(coin_transactions,
           LedgerRow(req[p].user, "credit", req[p].amount, req[p].read + req[p].amount,
                     "coin_purchase", req[p].ref, req[p].rid))
    /\ req' = [req EXCEPT ![p].pc = "mark_completed"]
    /\ UNCHANGED <<qaVars, redeemVars, users, coin_purchases, orders, notifications, rowLock, env, deployed,
                   issued, faults, acked>>

\* unnamed/part_001: UPDATE coin_purchases SET status = 'completed'; 200.
VariantMarkCompleted(p) ==
    /\ req[p].op = "part_001" /\ req[p].pc = "mark_completed"
    /\ coin_purchases' = [coin_purchases EXCEPT ![req[p].ref].status = "completed"]
    /\ req' = [req EXCEPT ![p] = Respond(req[p], 200, "received")]
    /\ UNCHANGED <<qaVars, redeemVars, users, coin_transactions, orders, notifications, rowLock, env, deployed,
                   issued, faults, acked>>

\* unnamed/part_001: a query fails; what was written before it stays (no
\* transaction), the outer catch answers 500.
VariantFail(p) ==
    /\ req[p].op = "part_001"
    /\ req[p].pc \in {"begin", "update_user", "insert_ledger", "mark_completed"}
    /\ CanFail
    /\ faults' = faults + 1
    /\ req' = [req EXCEPT ![p] = Respond(req[p], 500, "Webhook processing failed")]
    /\ UNCHANGED <<qaVars, redeemVars, dbVars, rowLock, env, deployed, issued, acked>>

InitWebhook ==
    /\ users = [u \in Users |-> [coins |-> InitCoins, locked_coins |-> 0]]
    /\ coin_transactions = <<>>
    /\ coin_purchases = InitPurchases
    /\ orders = <<>>
    /\ notifications = <<>>
    /\ redemption_requests = <<>>
    /\ transfers = <<>>
    /\ succeeded = {}
    /\ acked = [u \in Users |-> 0]
    /\ rowLock = [id \in PurchaseIds |-> NoProc]
    /\ env \in [STRIPE_SECRET_KEY : BOOLEAN, STRIPE_WEBHOOK_SECRET : BOOLEAN]
    /\ deployed \in {"webhooks.js", "part_001"}
    /\ req = [p \in Procs |-> Idle]
    /\ issued = 0
    /\ faults = 0
    /\ complaints = <<>>
    /\ complaint_proofs = <<>>
    /\ user_payout_methods = {}
    /\ payout_method_seq = 0

NextWebhook ==
    \E p \in Procs :
        \/ WebhookReceive(p)
        \/ WebhookLockPurchase(p)
        \/ WebhookCredit(p)
        \/ WebhookRollback(p)
        \/ VariantReadUser(p)
        \/ VariantUpdateUser(p)
        \/ VariantInsertLedger(p)
        \/ VariantMarkCompleted(p)
        \/ VariantFail(p)

SpecWebhook == InitWebhook /\ [][NextWebhook]_vars

(***************************************************************************)
(* Claims about the webhook.                                               *)
(***************************************************************************)
CompletedPurchasesOf(u) ==
    {id \in PurchaseIds :
        coin_purchases[id].user_id = u /\ coin_purchases[id].status = "completed"}

RECURSIVE GrantedSum(_)
GrantedSum(ids) ==
    IF ids = {} THEN 0
    ELSE LET id == CHOOSE x \in ids : TRUE
         IN  coin_purchases[id].coins_granted + GrantedSum(ids \ {id})

PurchasesOf(u) == {id \in PurchaseIds : coin_purchases[id].user_id = u}

CreditedOnce ==
    /\ \A id \in PurchaseIds :
          Cardinality(RowsOf("coin_purchase", id, "credit")) <= 1
    /\ \A u \in Users :
          users[u].coins <= InitCoins + GrantedSum(PurchasesOf(u))
    /\ Quiescent =>
          /\ \A u \in Users :
                users[u].coins >= InitCoins + GrantedSum(CompletedPurchasesOf(u))
          /\ \A id \in PurchaseIds :
                coin_purchases[id].status = "completed"
                    => Cardinality(RowsOf("coin_purchase", id, "credit")) = 1
          /\ \A p \in Procs :
                (req[p].resp = 200 /\ req[p].sig = WebhookSecret
                    /\ req[p].etype = "checkout.session.completed")
                    => coin_purchases[req[p].ref].status = "completed"

\* C1: a webhook replay does not double-credit coins.  Whatever deliveries of
\* checkout.session.completed were handled, in sequence or interleaved, by the
\* handler that is mounted (routes/webhooks.js or unnamed/part_001): no
\* purchase has two 'credit' ledger rows, no user's coins exceed the initial
\* coins plus the coins of the user's purchases, and once no delivery is in
\* flight every completed purchase has been credited with exactly one 'credit'
\* row and a delivery answered 200 has left its purchase completed.
C1_ReplayCreditsOnce == CreditedOnce

\* The part of C1 that the code keeps: the same statement for the handler of
\* routes/webhooks.js alone, which re-checks the status under the row lock.
WebhooksJsCreditsOnce == deployed = "webhooks.js" => CreditedOnce

\* C9: the database changes only in a step of a request whose stripe-signature
\* verifies against the webhook secret, whose type is
\* checkout.session.completed and whose session has a coin_purchases record;
\* with the webhook configured, a delivery whose signature does not verify is
\* answered 400 and a verified delivery of another type is acknowledged (200).
C9_VerifiedBeforeChange ==
    /\ [][dbVars' # dbVars =>
            \E p \in Procs :
                /\ req'[p] # req[p]
                /\ req'[p].sig = WebhookSecret
                /\ req'[p].etype = "checkout.session.completed"
                /\ PurchaseBySession(req'[p].ref) # {}]_vars
    /\ [](\A p \in Procs :
            (req[p].pc = "done" /\ WebhookConfigured) =>
                /\ req[p].sig # WebhookSecret => req[p].resp = 400
                /\ (req[p].sig = WebhookSecret
                      /\ req[p].etype # "checkout.session.completed")
                        => (req[p].resp = 200 /\ req[p].msg = "received"))

\* C9 witness: a forged delivery was answered 400, a delivery of another type
\* was acknowledged, and a verified delivery has completed a purchase.
C9_Witness ==
    /\ \E p \in Procs : req[p].pc = "done" /\ req[p].sig # WebhookSecret /\ req[p].resp = 400
    /\ \E id \in PurchaseIds :
          /\ coin_purchases[id].status = "completed"
          /\ users[coin_purchases[id].user_id].coins = InitCoins + coin_purchases[id].coins_granted

(***************************************************************************)
(* Balance routes of routes/coins.js, coinService, and order creation.     *)
(***************************************************************************)
Callers == {"buyer", "admin"}          \* req.user: a user, or an admin
Amounts == 0..MaxAmount
Fields == {1}
UnknownField == 0
Prices == {1, 2}
FieldOwner(f) == "farmer"

\* currency_rates.coins_per_unit of the buyer's currency, as a fraction.
CoinsPerUnit == [num |-> 3, den |-> 2]

\* Math.ceil(n / d) for n >= 0, d > 0
Ceil(n, d) == (n + d - 1) \div d

\* coinService.calculateCoinCost: Math.ceil(dollarAmount * coinsPerUnit)
calculateCoinCost(dollarAmount) == Ceil(dollarAmount * CoinsPerUnit.num, CoinsPerUnit.den)

\* req.user.id !== userId && req.user.user_type !== 'admin'
Forbidden(caller, userId) == caller # userId /\ caller # "admin"

\* coinService.deductCoins with the balance check left out.
deductCoins_Unchecked(userId, amount, refType, rid) ==
    LET newBalance == users[userId].coins - amount
    IN  [ok |-> TRUE, msg |-> "",
         users |-> [users EXCEPT ![userId].coins = newBalance],
         ledger |-> Append(coin_transactions,
                       LedgerRow(userId, "debit", amount, newBalance, refType, 0, rid))]

\* coinService.deductCoins: one transaction that locks the user row, checks the
\* balance, updates it and inserts the 'debit' ledger row.  The result carries
\* the tables as the COMMIT leaves them.
deductCoins(userId, amount, refType, rid) ==
    LET currentCoins == users[userId].coins
        newBalance == currentCoins - amount
    IN  IF currentCoins < amount
        THEN [ok |-> FALSE, msg |-> "Insufficient coins",
              users |-> users, ledger |-> coin_transactions]
        ELSE [ok |-> TRUE, msg |-> "",
              users |-> [users EXCEPT ![userId].coins = newBalance],
              ledger |-> Append(coin_transactions,
                            LedgerRow(userId, "debit", amount, newBalance, refType, 0, rid))]

\* coinService.creditCoins: one transaction, as deductCoins, without a check.
creditCoins(userId, amount, refType, rid) ==
    LET newBalance == users[userId].coins + amount
    IN  [ok |-> TRUE, msg |-> "",
         users |-> [users EXCEPT ![userId].coins = newBalance],
         ledger |-> Append(coin_transactions,
                       LedgerRow(userId, "credit", amount, newBalance, refType, 0, rid))]

\* POST /api/coins/:userId/deduct up to the statement that may fail: the answer
\* of the handler when no statement fails.
DeductAnswer(r) ==
    IF Forbidden(r.caller, r.user) THEN [code |-> 403, msg |-> "Forbidden", ok |-> FALSE]
    ELSE IF r.amount <= 0 THEN [code |-> 400, msg |-> "Invalid amount value", ok |-> FALSE]
    ELSE IF users[r.user].coins < r.amount
         THEN [code |-> 400, msg |-> "Insufficient coins", ok |-> FALSE]
    ELSE [code |-> 200, msg |-> "deducted", ok |-> TRUE]

NewRequest(op, caller, userId, amount) ==
    [Idle EXCEPT !.op = op, !.caller = caller, !.user = userId, !.amount = amount,
                 !.rid = issued + 1]

\* POST /api/coins/:userId/deduct: BEGIN, checks, SELECT FOR UPDATE, UPDATE,
\* INSERT, COMMIT, all statements succeeding.
Deduct(p) ==
    /\ CanStart(p)
    /\ \E caller \in Callers, userId \in Users, amount \in Amounts :
          LET r == NewRequest("deduct", caller, userId, amount)
              a == DeductAnswer(r)
              newCoins == users[userId].coins - amount
          IN  /\ req' = [req EXCEPT ![p] = Respond(r, a.code, a.msg)]
              /\ IF a.ok
                 THEN /\ users' = [users EXCEPT ![userId].coins = newCoins]
                      /\ coin_transactions' = Append(coin_transactions,
                             LedgerRow(userId, "debit", amount, newCoins, "order", 0, r.rid))
                      /\ acked' = [acked EXCEPT ![userId] = @ - amount]
                 ELSE UNCHANGED <<users, coin_transactions, acked>>
    /\ issued' = issued + 1
    /\ UNCHANGED <<qaVars, redeemVars, coin_purchases, orders, notifications, rowLock, env, deployed, faults>>

\* POST /api/coins/:userId/deduct: the UPDATE throws; the outer catch rolls back
\* and answers 500.
DeductUpdateFails(p) ==
    /\ CanStart(p) /\ CanFail
    /\ \E caller \in Callers, userId \in Users, amount \in Amounts :
          LET r == NewRequest("deduct", caller, userId, amount)
          IN  /\ DeductAnswer(r).ok
              /\ req' = [req EXCEPT ![p] = Respond(r, 500, "Server Error")]
    /\ issued' = issued + 1
    /\ faults' = faults + 1
    /\ UNCHANGED <<qaVars, redeemVars, dbVars, rowLock, env, deployed, acked>>

\* POST /api/coins/:userId/deduct: the INSERT of the ledger row throws inside its
\* own try/catch, which only logs; the handler goes on to COMMIT and answers
\* with the deduction.  PostgreSQL has aborted the transaction at the failed
\* statement, so the COMMIT ends it as a ROLLBACK: the UPDATE is not kept.
DeductLedgerFails(p) ==
    /\ CanStart(p) /\ CanFail
    /\ \E caller \in Callers, userId \in Users, amount \in Amounts :
          LET r == NewRequest("deduct", caller, userId, amount)
          IN  /\ DeductAnswer(r).ok
              /\ req' = [req EXCEPT ![p] = Respond(r, 200, "deducted")]
              /\ acked' = [acked EXCEPT ![userId] = @ - amount]
    /\ issued' = issued + 1
    /\ faults' = faults + 1
    /\ UNCHANGED <<qaVars, redeemVars, dbVars, rowLock, env, deployed>>

\* POST /api/coins/:userId/add: checks, then SELECT coins on the pool (no lock).
AddRead(p) ==
    /\ CanStart(p)
    /\ \E caller \in Callers, userId \in Users, amount \in Amounts :
          LET r == NewRequest("add", caller, userId, amount)
          IN  req' = [req EXCEPT ![p] =
                 IF Forbidden(caller, userId) THEN Respond(r, 403, "Forbidden")
                 ELSE IF amount <= 0 THEN Respond(r, 400, "Invalid amount value")
                 ELSE [r EXCEPT !.pc = "update", !.read = users[userId].coins]]
    /\ issued' = issued + 1
    /\ UNCHANGED <<qaVars, redeemVars, dbVars, rowLock, env, deployed, faults, acked>>

\* POST /api/coins/:userId/add: UPDATE users SET coins = $1, the balance read
\* plus the amount; 200.  No ledger row is written.
AddUpdate(p) ==
    /\ req[p].op = "add" /\ req[p].pc = "update"
    /\ users' = [users EXCEPT ![req[p].user].coins = req[p].read + req[p].amount]
    /\ acked' = [acked EXCEPT ![req[p].user] = @ + req[p].amount]
    /\ req' = [req EXCEPT ![p] = Respond(req[p], 200, "added")]
    /\ UNCHANGED <<qaVars, redeemVars, coin_transactions, coin_purchases, orders, notifications, rowLock,
                   env, deployed, issued, faults>>

\* POST /api/coins/:userId/add: the UPDATE throws; 500.
AddFails(p) ==
    /\ req[p].op = "add" /\ req[p].pc = "update"
    /\ CanFail
    /\ faults' = faults + 1
    /\ req' = [req EXCEPT ![p] = Respond(req[p], 500, "Server Error")]
    /\ UNCHANGED <<qaVars, redeemVars, dbVars, rowLock, env, deployed, issued, acked>>

\* coinService.creditCoins called for a user (by the order status route).
CreditCoins(p) ==
    /\ CanStart(p)
    /\ \E userId \in Users, amount \in Amounts \ {0} :
          LET r == NewRequest("creditCoins", "admin", userId, amount)
              res == creditCoins(userId, amount, "order", r.rid)
          IN  /\ users' = res.users
              /\ coin_transactions' = res.ledger
              /\ acked' = [acked EXCEPT ![userId] = @ + amount]
              /\ req' = [req EXCEPT ![p] = Respond(r, 200, "success")]
    /\ issued' = issued + 1
    /\ UNCHANGED <<qaVars, redeemVars, coin_purchases, orders, notifications, rowLock, env, deployed, faults>>

\* coinService.creditCoins: a statement throws; ROLLBACK, the error is thrown on.
CreditCoinsFails(p) ==
    /\ CanStart(p) /\ CanFail
    /\ \E userId \in Users, amount \in Amounts \ {0} :
          req' = [req EXCEPT ![p] =
                    Respond(NewRequest("creditCoins", "admin", userId, amount), 500, "thrown")]
    /\ issued' = issued + 1
    /\ faults' = faults + 1
    /\ UNCHANGED <<qaVars, redeemVars, dbVars, rowLock, env, deployed, acked>>

\* POST /api/orders: BEGIN; SELECT the buyer's currency; SELECT the field;
\* own-farm check; calculateCoinCost.
OrderBegin(p) ==
    /\ CanStart(p)
    /\ \E buyer \in Users, field \in Fields \cup {UnknownField}, price \in Prices :
          LET r == [NewRequest("order", buyer, buyer, calculateCoinCost(price))
                        EXCEPT !.ref = field, !.read = price]
          IN  req' = [req EXCEPT ![p] =
                 IF field \notin Fields THEN Respond(r, 404, "Field not found")
                 ELSE IF buyer = FieldOwner(field)
                      THEN Respond(r, 400, "You cannot purchase from your own farm")
                 ELSE [r EXCEPT !.pc = "deduct"]]
    /\ issued' = issued + 1
    /\ UNCHANGED <<qaVars, redeemVars, dbVars, rowLock, env, deployed, faults, acked>>

\* POST /api/orders: coinService.deductCoins on a connection of its own; when it
\* throws, ROLLBACK of the order's transaction and 400.
OrderDeduct(p) ==
    /\ req[p].op = "order" /\ req[p].pc = "deduct"
    /\ LET r == req[p]
           res == deductCoins(r.user, r.amount, "order", r.rid)
       IN  /\ users' = res.users
           /\ coin_transactions' = res.ledger
           /\ IF res.ok
              THEN /\ req' = [req EXCEPT ![p].pc = "insert_order"]
                   /\ acked' = [acked EXCEPT ![r.user] = @ - r.amount]
              ELSE /\ req' = [req EXCEPT ![p] = Respond(r, 400, res.msg)]
                   /\ UNCHANGED acked
    /\ UNCHANGED <<qaVars, redeemVars, coin_purchases, orders, notifications, rowLock, env, deployed,
                   issued, faults>>

\* POST /api/orders: a statement of deductCoins throws; deductCoins rolls back
\* and throws, the route answers 400 with the message.
OrderDeductFails(p) ==
    /\ req[p].op = "order" /\ req[p].pc = "deduct"
    /\ CanFail
    /\ faults' = faults + 1
    /\ req' = [req EXCEPT ![p] = Respond(req[p], 400, "thrown")]
    /\ UNCHANGED <<qaVars, redeemVars, dbVars, rowLock, env, deployed, issued, acked>>

\* POST /api/orders: INSERT INTO orders; two INSERTs INTO notifications; COMMIT.
OrderInsert(p) ==
    /\ req[p].op = "order" /\ req[p].pc = "insert_order"
    /\ LET r == req[p]
       IN  /\ orders' = Append(orders,
                  [buyer_id |-> r.user, field_id |-> r.ref, total_price |-> r.read,
                   status |-> "pending", rid |-> r.rid])
           /\ notifications' = notifications \o
                  <<[user_id |-> r.user, type |-> "success"],
                    [user_id |-> FieldOwner(r.ref), type |-> "info"]>>
           /\ req' = [req EXCEPT ![p] = Respond(r, 200, "order")]
    /\ UNCHANGED <<qaVars, redeemVars, users, coin_transactions, coin_purchases, rowLock, env, deployed,
                   issued, faults, acked>>

\* POST /api/orders: the INSERT of the order or of a notification throws;
\* ROLLBACK of the order's transaction, 500.  deductCoins has committed.
OrderInsertFails(p) ==
    /\ req[p].op = "order" /\ req[p].pc = "insert_order"
    /\ CanFail
    /\ faults' = faults + 1
    /\ req' = [req EXCEPT ![p] = Respond(req[p], 500, "Server Error")]
    /\ UNCHANGED <<qaVars, redeemVars, dbVars, rowLock, env, deployed, issued, acked>>

InitCoinsSpec ==
    /\ users = [u \in Users |-> [coins |-> InitCoins, locked_coins |-> 0]]
    /\ coin_transactions = <<>>
    /\ coin_purchases = InitPurchases
    /\ orders = <<>>
    /\ notifications = <<>>
    /\ redemption_requests = <<>>
    /\ transfers = <<>>
    /\ succeeded = {}
    /\ acked = [u \in Users |-> 0]
    /\ rowLock = [id \in PurchaseIds |-> NoProc]
    /\ env = [STRIPE_SECRET_KEY |-> TRUE, STRIPE_WEBHOOK_SECRET |-> TRUE]
    /\ deployed = "webhooks.js"
    /\ req = [p \in Procs |-> Idle]
    /\ issued = 0
    /\ faults = 0
    /\ complaints = <<>>
    /\ complaint_proofs = <<>>
    /\ user_payout_methods = {}
    /\ payout_method_seq = 0

NextCoins ==
    \E p \in Procs :
        \/ Deduct(p)
        \/ DeductUpdateFails(p)
        \/ DeductLedgerFails(p)
        \/ AddRead(p)
        \/ AddUpdate(p)
        \/ AddFails(p)
        \/ CreditCoins(p)
        \/ CreditCoinsFails(p)
        \/ OrderBegin(p)
        \/ OrderDeduct(p)
        \/ OrderDeductFails(p)
        \/ OrderInsert(p)
        \/ OrderInsertFails(p)

SpecCoins == InitCoinsSpec /\ [][NextCoins]_vars

(***************************************************************************)
(* Claims about the balance routes and order creation.                     *)
(***************************************************************************)
LedgerRowsBy(rid) == {i \in 1..Len(coin_transactions) : coin_transactions[i].rid = rid}
OrdersBy(rid) == {i \in 1..Len(orders) : orders[i].rid = rid}

\* The step in which process p takes a POST /api/coins/:userId/deduct request.
DeductStep(p) ==
    /\ req[p].pc \in {"idle", "done"}
    /\ req'[p] # req[p]
    /\ req'[p].op = "deduct"

\* The step in which the order request of process p calls coinService.deductCoins.
OrderDeductStep(p) ==
    /\ req[p].op = "order" /\ req[p].pc = "deduct"
    /\ req'[p] # req[p]

\* C3: deducting more coins than the user's balance fails with 400 and changes
\* nothing.  A deduct request of an authorised caller whose amount exceeds the
\* user's coins is answered 400 and leaves users, the ledger and orders as they
\* were; an order whose coin cost exceeds the buyer's coins is answered 400 at
\* its deduction, with users, ledger and orders unchanged, and no order row of
\* that request exists afterwards.
C3_OverdraftRejected ==
    /\ [][\A p \in Procs :
            /\ (DeductStep(p)
                  /\ ~Forbidden(req'[p].caller, req'[p].user)
                  /\ req'[p].amount > users[req'[p].user].coins)
                 => (req'[p].pc = "done" /\ req'[p].resp = 400
                       /\ UNCHANGED <<redeemVars, users, coin_transactions, orders>>)
            /\ (OrderDeductStep(p) /\ req[p].amount > users[req[p].user].coins)
                 => (req'[p].pc = "done" /\ req'[p].resp = 400
                       /\ UNCHANGED <<redeemVars, users, coin_transactions, orders>>)]_vars
    /\ [](\A p \in Procs :
            (req[p].op = "order" /\ req[p].pc = "done" /\ req[p].msg = "Insufficient coins")
                => (OrdersBy(req[p].rid) = {} /\ LedgerRowsBy(req[p].rid) = {}))

\* C3 witness: a deduct request and an order were both refused for insufficient
\* coins, and nothing was written.
C3_Witness ==
    /\ \E p \in Procs :
          /\ req[p].op = "deduct" /\ req[p].pc = "done"
          /\ req[p].resp = 400 /\ req[p].msg = "Insufficient coins"
    /\ \E p \in Procs :
          /\ req[p].op = "order" /\ req[p].pc = "done"
          /\ req[p].resp = 400 /\ req[p].msg = "Insufficient coins"
    /\ coin_transactions = <<>> /\ orders = <<>>
    /\ \A u \in Users : users[u].coins = InitCoins

\* C5: no update of a balance is lost.  With no failed statement, once no
\* request is in flight every user's coins are the initial coins plus the
\* acknowledged credits minus the acknowledged debits (add, deduct,
\* creditCoins, deductCoins in any interleaving).
C5_NoLostUpdate ==
    (Quiescent /\ faults = 0) =>
        \A u \in Users : users[u].coins = InitCoins + acked[u]

\* C6: in POST /api/coins/:userId/deduct a statement that fails inside the
\* transaction leaves the balance unchanged and the caller gets an error
\* response, never a success response.
C6_FailurePropagates ==
    [][\A p \in Procs :
          (DeductStep(p) /\ faults' = faults + 1)
              => (users' = users /\ req'[p].resp >= 400)]_vars

\* C7: order creation is atomic with its coin deduction.  When POST /api/orders
\* has answered, either it answered 200, its order row exists and its one
\* 'debit' ledger row of the coin cost exists, or it answered an error and
\* neither an order row nor a ledger row of that request exists.
C7_OrderAtomicWithDeduction ==
    \A p \in Procs :
        (req[p].op = "order" /\ req[p].pc = "done") =>
            \/ /\ req[p].resp = 200
               /\ Cardinality(OrdersBy(req[p].rid)) = 1
               /\ Cardinality(LedgerRowsBy(req[p].rid)) = 1
               /\ \A i \in LedgerRowsBy(req[p].rid) :
                     /\ coin_transactions[i].type = "debit"
                     /\ coin_transactions[i].amount = req[p].amount
            \/ /\ req[p].resp >= 400
               /\ OrdersBy(req[p].rid) = {}
               /\ LedgerRowsBy(req[p].rid) = {}

(***************************************************************************)
(* Redemptions: createRedemptionRequest behind POST /api/coins/redeem, and *)
(* rejectRedemption and approveRedemption behind the admin route           *)
(* updateRedemption.  Every transaction of this part locks the redemption  *)
(* row and then the user row and waits for nothing else, so each is one    *)
(* step; the call to Stripe lies between two transactions.                 *)
(***************************************************************************)
REDEMPTION_COINS_PER_USD == 100
REDEMPTION_PLATFORM_FEE_PERCENT == 20
REDEMPTION_MIN_COINS == 1000
REDEMPTION_MAX_COINS == 1000000
MaxRedeemRequests == 3     \* redemption requests issued in one behaviour

RedeemInitCoins == 2 * REDEMPTION_MIN_COINS + InitCoins
RedeemAmounts ==
    {0, REDEMPTION_MIN_COINS - 1, REDEMPTION_MIN_COINS, RedeemInitCoins + 1,
     REDEMPTION_MAX_COINS + 1}
RedemptionIds == 1..MaxRedeemRequests

StripeFailedMsg == "Stripe transfer failed. Coins have been returned to user's account."

\* users.stripe_connect_account_id: the farmer has a Connect account, the buyer
\* has none.
StripeConnectAccount(u) == IF u = "farmer" THEN "acct_farmer" ELSE "none"

\* Math.floor((coinsRequested * conversionRate) * 100), conversionRate = 1 / coins per USD
fiatAmountCents(coinsRequested) == (coinsRequested * 100) \div REDEMPTION_COINS_PER_USD

\* Math.floor(fiatAmountCents * (fee percent / 100))
platformFeeCents(coinsRequested) ==
    (fiatAmountCents(coinsRequested) * REDEMPTION_PLATFORM_FEE_PERCENT) \div 100

payoutAmountCents(coinsRequested) ==
    fiatAmountCents(coinsRequested) - platformFeeCents(coinsRequested)

CanStartRedeem(p) == req[p].pc \in {"idle", "done"} /\ issued < MaxRedeemRequests

Exists(id) == id \in 1..Len(redemption_requests)

\* SELECT id FROM redemption_requests WHERE user_id = $1
\*   AND status IN ('pending', 'under_review') LIMIT 1
existingPending(userId) ==
    {id \in 1..Len(redemption_requests) :
        /\ redemption_requests[id].user_id = userId
        /\ redemption_requests[id].status \in {"pending", "under_review"}}

\* The unlock without its second assignment.
UnlockCoins_CoinsOnly(userId, n) == [users EXCEPT ![userId].coins = @ + n]

\* UPDATE users SET coins = coins + $1, locked_coins = locked_coins - $1
UnlockCoins(userId, n) ==
    [users EXCEPT ![userId].coins = @ + n, ![userId].locked_coins = @ - n]

\* UPDATE users SET locked_coins = locked_coins - $1
DeductLocked(userId, n) == [users EXCEPT ![userId].locked_coins = @ - n]

SetStatus(id, status) == [redemption_requests EXCEPT ![id].status = status]

\* POST /api/coins/redeem and createRedemptionRequest up to the lock of the user
\* row: the route's check, the bounds, the unlocked look for a pending request.
CreateCheck(p) ==
    /\ CanStartRedeem(p)
    /\ \E userId \in Users, coinsRequested \in RedeemAmounts :
          LET r == NewRequest("create", userId, userId, coinsRequested)
          IN  req' = [req EXCEPT ![p] =
                 IF coinsRequested <= 0 THEN Respond(r, 400, "Invalid coins_requested")
                 ELSE IF coinsRequested < REDEMPTION_MIN_COINS
                         \/ coinsRequested > REDEMPTION_MAX_COINS
                      THEN Respond(r, 500, "Coins must be between")
                 ELSE IF existingPending(userId) # {}
                      THEN Respond(r, 400, "You already have a pending redemption request")
                 ELSE [r EXCEPT !.pc = "lock_user"]]
    /\ issued' = issued + 1
    /\ UNCHANGED <<qaVars, dbVars, redeemVars, rowLock, env, deployed, faults, acked>>

\* createRedemptionRequest: SELECT ... FOR UPDATE of the user, balance check, move
\* the coins to locked_coins, INSERT the request as 'pending', ledger row, COMMIT.
CreateLock(p) ==
    /\ req[p].op = "create" /\ req[p].pc = "lock_user"
    /\ LET r == req[p]
           currentCoins == users[r.user].coins
           currentLocked == users[r.user].locked_coins
           newCoins == currentCoins - r.amount
           newLocked == currentLocked + r.amount
           redemptionId == Len(redemption_requests) + 1
       IN  IF currentCoins < r.amount
           THEN /\ req' = [req EXCEPT ![p] = Respond(r, 400, "Insufficient coins")]
                /\ UNCHANGED <<users, redemption_requests, coin_transactions>>
           ELSE /\ users' = [users EXCEPT ![r.user].coins = newCoins,
                                          ![r.user].locked_coins = newLocked]
                /\ redemption_requests' = Append(redemption_requests,
                       [user_id |-> r.user, coins_requested |-> r.amount,
                        payout_amount_cents |-> payoutAmountCents(r.amount),
                        status |-> "pending", stripe_transfer_id |-> 0])
                /\ coin_transactions' = Append(coin_transactions,
                       LedgerRow(r.user, "redeem_request", r.amount, newCoins,
                                 "redemption_request", redemptionId, r.rid))
                /\ req' = [req EXCEPT ![p] =
                       Respond([r EXCEPT !.ref = redemptionId], 201, "created")]
    /\ UNCHANGED <<qaVars, coin_purchases, orders, notifications, transfers, succeeded, rowLock,
                   env, deployed, issued, faults, acked>>

\* createRedemptionRequest: a statement throws; ROLLBACK, the route answers 500.
CreateFails(p) ==
    /\ req[p].op = "create" /\ req[p].pc = "lock_user"
    /\ CanFail
    /\ faults' = faults + 1
    /\ req' = [req EXCEPT ![p] = Respond(req[p], 500, "Server Error")]
    /\ UNCHANGED <<qaVars, dbVars, redeemVars, rowLock, env, deployed, issued, acked>>

\* updateRedemption with action 'reject': rejectRedemption, one transaction.
Reject(p) ==
    /\ CanStartRedeem(p)
    /\ \E id \in RedemptionIds :
          LET r == [NewRequest("reject", "admin", "none", 0) EXCEPT !.ref = id]
          IN  IF ~Exists(id)
              THEN /\ req' = [req EXCEPT ![p] =
                          Respond(r, 400, "Redemption request not found")]
                   /\ UNCHANGED <<users, redemption_requests, coin_transactions>>
              ELSE LET redemption == redemption_requests[id]
                       unlocked == UnlockCoins(redemption.user_id,
                                               redemption.coins_requested)
                   IN  IF redemption.status \notin {"pending", "under_review"}
                       THEN /\ req' = [req EXCEPT ![p] =
                                   Respond(r, 400, "Cannot reject redemption")]
                            /\ UNCHANGED <<users, redemption_requests, coin_transactions>>
                       ELSE /\ users' = unlocked
                            /\ redemption_requests' = SetStatus(id, "rejected")
                            /\ coin_transactions' = Append(coin_transactions,
                                   LedgerRow(redemption.user_id, "redeem_rejected",
                                             redemption.coins_requested,
                                             unlocked[redemption.user_id].coins,
                                             "redemption_request", id, r.rid))
                            /\ req' = [req EXCEPT ![p] =
                                   Respond([r EXCEPT !.user = redemption.user_id,
                                                     !.amount = redemption.coins_requested],
                                           200, "rejected")]
    /\ issued' = issued + 1
    /\ UNCHANGED <<qaVars, coin_purchases, orders, notifications, transfers, succeeded, rowLock,
                   env, deployed, faults, acked>>

\* rejectRedemption: a statement throws after the status check; ROLLBACK, 500.
RejectFails(p) ==
    /\ CanStartRedeem(p) /\ CanFail
    /\ \E id \in RedemptionIds :
          /\ Exists(id)
          /\ redemption_requests[id].status \in {"pending", "under_review"}
          /\ req' = [req EXCEPT ![p] =
                Respond([NewRequest("reject", "admin", "none", 0) EXCEPT !.ref = id],
                        500, "Server Error")]
    /\ issued' = issued + 1
    /\ faults' = faults + 1
    /\ UNCHANGED <<qaVars, dbVars, redeemVars, rowLock, env, deployed, acked>>

\* approveRedemption, first transaction: lock the request, 'paid' returns
\* 'Already paid', a status other than pending, under_review or approved
\* throws, otherwise status = 'approved', COMMIT, and the lock is released.
ApproveBegin(p) ==
    /\ CanStartRedeem(p)
    /\ \E id \in RedemptionIds :
          LET r == [NewRequest("approve", "admin", "none", 0)
                        EXCEPT !.ref = id, !.late = id \in succeeded]
          IN  IF ~Exists(id)
              THEN /\ req' = [req EXCEPT ![p] =
                          Respond(r, 400, "Redemption request not found")]
                   /\ UNCHANGED <<redemption_requests, succeeded>>
              ELSE LET redemption == redemption_requests[id]
                       acct == StripeConnectAccount(redemption.user_id)
                       q == [r EXCEPT !.user = redemption.user_id,
                                      !.amount = redemption.coins_requested,
                                      !.read = redemption.payout_amount_cents,
                                      !.acct = acct]
                   IN  IF redemption.status = "paid"
                       THEN /\ req' = [req EXCEPT ![p] = Respond(q, 200, "Already paid")]
                            /\ succeeded' = succeeded \cup {id}
                            /\ UNCHANGED redemption_requests
                       ELSE IF redemption.status \notin {"pending", "under_review", "approved"}
                       THEN /\ req' = [req EXCEPT ![p] =
                                   Respond(q, 400, "Cannot approve redemption")]
                            /\ UNCHANGED <<redemption_requests, succeeded>>
                       ELSE /\ redemption_requests' = SetStatus(id, "approved")
                            /\ req' = [req EXCEPT ![p] =
                                   [q EXCEPT !.pc = IF acct # "none" THEN "transfer"
                                                    ELSE "manual"]]
                            /\ UNCHANGED succeeded
    /\ issued' = issued + 1
    /\ UNCHANGED <<qaVars, dbVars, transfers, rowLock, env, deployed, faults, acked>>

\* approveRedemption: the UPDATE to 'approved' throws; ROLLBACK, the error is
\* thrown on and the controller answers 500.
ApproveBeginFails(p) ==
    /\ CanStartRedeem(p) /\ CanFail
    /\ \E id \in RedemptionIds :
          /\ Exists(id)
          /\ redemption_requests[id].status \in {"pending", "under_review", "approved"}
          /\ req' = [req EXCEPT ![p] =
                Respond([NewRequest("approve", "admin", redemption_requests[id].user_id,
                                    redemption_requests[id].coins_requested)
                            EXCEPT !.ref = id, !.late = id \in succeeded],
                        500, "Server Error")]
    /\ issued' = issued + 1
    /\ faults' = faults + 1
    /\ UNCHANGED <<qaVars, dbVars, redeemVars, rowLock, env, deployed, acked>>

\* approveRedemption: stripe.transfers.create succeeds; without STRIPE_SECRET_KEY
\* 'Stripe not configured' is thrown into the Stripe catch block.
ApproveTransfer(p) ==
    /\ req[p].op = "approve" /\ req[p].pc = "transfer"
    /\ IF env.STRIPE_SECRET_KEY
       THEN /\ transfers' = Append(transfers,
                   [redemption_id |-> req[p].ref, amount |-> req[p].read,
                    destination |-> req[p].acct])
            /\ req' = [req EXCEPT ![p].pc = "mark_paid", ![p].read = Len(transfers) + 1]
       ELSE /\ req' = [req EXCEPT ![p].pc = "failed"]
            /\ UNCHANGED transfers
    /\ UNCHANGED <<qaVars, dbVars, redemption_requests, succeeded, rowLock, env, deployed,
                   issued, faults, acked>>

\* approveRedemption: stripe.transfers.create throws; no transfer is made.
ApproveTransferFails(p) ==
    /\ req[p].op = "approve" /\ req[p].pc = "transfer"
    /\ env.STRIPE_SECRET_KEY
    /\ req' = [req EXCEPT ![p].pc = "failed"]
    /\ UNCHANGED <<qaVars, dbVars, redeemVars, rowLock, env, deployed, issued, faults, acked>>

\* approveRedemption, updateClient transaction: status = 'paid' with the transfer
\* id, locked_coins - coins_requested, 'redeem_approved' ledger row, COMMIT;
\* the call returns success.
ApproveMarkPaid(p) ==
    /\ req[p].op = "approve" /\ req[p].pc = "mark_paid"
    /\ LET r == req[p]
           deducted == DeductLocked(r.user, r.amount)
       IN  /\ redemption_requests' =
                  [redemption_requests EXCEPT ![r.ref].status = "paid",
                                              ![r.ref].stripe_transfer_id = r.read]
           /\ users' = deducted
           /\ coin_transactions' = Append(coin_transactions,
                  LedgerRow(r.user, "redeem_approved", r.amount,
                            deducted[r.user].locked_coins, "redemption_request",
                            r.ref, r.rid))
           /\ succeeded' = succeeded \cup {r.ref}
           /\ req' = [req EXCEPT ![p] = Respond(r, 200, "paid")]
    /\ UNCHANGED <<qaVars, coin_purchases, orders, notifications, transfers, rowLock, env, deployed,
                   issued, faults, acked>>

\* approveRedemption: a statement of the updateClient transaction throws; it is
\* rolled back and the error is thrown into the Stripe catch block.
ApproveMarkPaidFails(p) ==
    /\ req[p].op = "approve" /\ req[p].pc = "mark_paid"
    /\ CanFail
    /\ faults' = faults + 1
    /\ req' = [req EXCEPT ![p].pc = "failed"]
    /\ UNCHANGED <<qaVars, dbVars, redeemVars, rowLock, env, deployed, issued, acked>>

\* approveRedemption, catch (stripeErr), failClient transaction: coins back from
\* locked_coins, status = 'failed', 'redeem_rejected' ledger row, COMMIT; then
\* 'Stripe transfer failed ... Coins have been returned' is thrown (500).
ApproveFailTx(p) ==
    /\ req[p].op = "approve" /\ req[p].pc = "failed"
    /\ LET r == req[p]
           unlocked == UnlockCoins(r.user, r.amount)
       IN  /\ users' = unlocked
           /\ redemption_requests' = SetStatus(r.ref, "failed")
           /\ coin_transactions' = Append(coin_transactions,
                  LedgerRow(r.user, "redeem_rejected", r.amount, unlocked[r.user].coins,
                            "redemption_request", r.ref, r.rid))
           /\ req' = [req EXCEPT ![p] = Respond(r, 500, StripeFailedMsg)]
    /\ UNCHANGED <<qaVars, coin_purchases, orders, notifications, transfers, succeeded, rowLock,
                   env, deployed, issued, faults, acked>>

\* approveRedemption: a statement of the failClient transaction throws; ROLLBACK,
\* and the handler goes on to the emergency update.
ApproveFailTxFails(p) ==
    /\ req[p].op = "approve" /\ req[p].pc = "failed"
    /\ CanFail
    /\ faults' = faults + 1
    /\ req' = [req EXCEPT ![p].pc = "emergency"]
    /\ UNCHANGED <<qaVars, dbVars, redeemVars, rowLock, env, deployed, issued, acked>>

\* approveRedemption: UPDATE redemption_requests SET status = 'failed' on the
\* pool; then the same error is thrown.
ApproveEmergency(p) ==
    /\ req[p].op = "approve" /\ req[p].pc = "emergency"
    /\ redemption_requests' = SetStatus(req[p].ref, "failed")
    /\ req' = [req EXCEPT ![p] = Respond(req[p], 500, StripeFailedMsg)]
    /\ UNCHANGED <<qaVars, dbVars, transfers, succeeded, rowLock, env, deployed, issued,
                   faults, acked>>

\* approveRedemption: the emergency update throws too (the database is still
\* failing); it is logged, and the same error is thrown.
ApproveEmergencyFails(p) ==
    /\ req[p].op = "approve" /\ req[p].pc = "emergency"
    /\ req' = [req EXCEPT ![p] = Respond(req[p], 500, StripeFailedMsg)]
    /\ UNCHANGED <<qaVars, dbVars, redeemVars, rowLock, env, deployed, issued, faults, acked>>

\* approveRedemption, no Connect account, manualClient transaction:
\* locked_coins - coins_requested, 'redeem_approved' ledger row, COMMIT; the
\* call returns success.  The status stays 'approved'.
ApproveManual(p) ==
    /\ req[p].op = "approve" /\ req[p].pc = "manual"
    /\ LET r == req[p]
           deducted == DeductLocked(r.user, r.amount)
       IN  /\ users' = deducted
           /\ coin_transactions' = Append(coin_transactions,
                  LedgerRow(r.user, "redeem_approved", r.amount,
                            deducted[r.user].locked_coins, "redemption_request",
                            r.ref, r.rid))
           /\ succeeded' = succeeded \cup {r.ref}
           /\ req' = [req EXCEPT ![p] =
                  Respond(r, 200, "Approved (manual payout required - coins deducted)")]
    /\ UNCHANGED <<qaVars, coin_purchases, orders, notifications, redemption_requests, transfers,
                   rowLock, env, deployed, issued, faults, acked>>

\* approveRedemption: a statement of the manualClient transaction throws;
\* ROLLBACK, the error is thrown on (500).
ApproveManualFails(p) ==
    /\ req[p].op = "approve" /\ req[p].pc = "manual"
    /\ CanFail
    /\ faults' = faults + 1
    /\ req' = [req EXCEPT ![p] = Respond(req[p], 500, "Server Error")]
    /\ UNCHANGED <<qaVars, dbVars, redeemVars, rowLock, env, deployed, issued, acked>>

InitRedeem ==
    /\ users = [u \in Users |-> [coins |-> RedeemInitCoins, locked_coins |-> 0]]
    /\ coin_transactions = <<>>
    /\ coin_purchases = InitPurchases
    /\ orders = <<>>
    /\ notifications = <<>>
    /\ redemption_requests = <<>>
    /\ transfers = <<>>
    /\ succeeded = {}
    /\ acked = [u \in Users |-> 0]
    /\ rowLock = [id \in PurchaseIds |-> NoProc]
    /\ env \in [STRIPE_SECRET_KEY : BOOLEAN, STRIPE_WEBHOOK_SECRET : {TRUE}]
    /\ deployed = "webhooks.js"
    /\ req = [p \in Procs |-> Idle]
    /\ issued = 0
    /\ faults = 0
    /\ complaints = <<>>
    /\ complaint_proofs = <<>>
    /\ user_payout_methods = {}
    /\ payout_method_seq = 0

NextRedeem ==
    \E p \in Procs :
        \/ CreateCheck(p)
        \/ CreateLock(p)
        \/ CreateFails(p)
        \/ Reject(p)
        \/ RejectFails(p)
        \/ ApproveBegin(p)
        \/ ApproveBeginFails(p)
        \/ ApproveTransfer(p)
        \/ ApproveTransferFails(p)
        \/ ApproveMarkPaid(p)
        \/ ApproveMarkPaidFails(p)
        \/ ApproveFailTx(p)
        \/ ApproveFailTxFails(p)
        \/ ApproveEmergency(p)
        \/ ApproveEmergencyFails(p)
        \/ ApproveManual(p)
        \/ ApproveManualFails(p)

SpecRedeem == InitRedeem /\ [][NextRedeem]_vars

(***************************************************************************)
(* Claims about redemptions.                                               *)
(***************************************************************************)
OpenStatuses == {"pending", "under_review", "approved"}

RECURSIVE OpenSum(_, _)
\* The sum of coins_requested over the open requests of user u among the first n.
OpenSum(u, n) ==
    IF n = 0 THEN 0
    ELSE OpenSum(u, n - 1) +
         (IF /\ redemption_requests[n].user_id = u
             /\ redemption_requests[n].status \in OpenStatuses
          THEN redemption_requests[n].coins_requested ELSE 0)

TransfersOf(id) == {i \in 1..Len(transfers) : transfers[i].redemption_id = id}

\* The ledger rows that take the coins of request id out of locked_coins.
RemovalsOf(id) ==
    RowsOf("redemption_request", id, "redeem_approved")
        \cup RowsOf("redemption_request", id, "redeem_rejected")

\* A step of an approveRedemption call on behalf of process p.
ApproveStep(p) == req'[p] # req[p] /\ req'[p].op = "approve"

\* The same, for a call that began after an earlier call on the same request had
\* returned success.
SecondApproveStep(p) == ApproveStep(p) /\ req'[p].late

ApproveStepIdempotent(p) ==
    /\ users' = users
    /\ coin_transactions' = coin_transactions
    /\ transfers' = transfers
    /\ redemption_requests'[req'[p].ref].status = redemption_requests[req'[p].ref].status

\* C2: approving a redemption twice is idempotent.  No step of an
\* approveRedemption call that began after an earlier call on the same request
\* returned success changes the user's coins or locked_coins, the request's
\* status, the ledger or the Stripe transfers, with or without a Connect account.
C2_ApproveTwiceIdempotent ==
    [][\A p \in Procs : SecondApproveStep(p) => ApproveStepIdempotent(p)]_vars

\* On the transfer path the first success leaves the request 'paid', and a second
\* call returns 'Already paid' without a change.
TransferPathApproveTwiceIdempotent ==
    [][\A p \in Procs :
          (SecondApproveStep(p) /\ req'[p].acct # "none") => ApproveStepIdempotent(p)]_vars

\* C4: in every reachable state each user's locked_coins equals the sum of
\* coins_requested over that user's open redemption requests (pending,
\* under_review or approved).
C4_LockedEqualsOpenRequests ==
    \A u \in Users : users[u].locked_coins = OpenSum(u, Len(redemption_requests))

\* The step in which approveRedemption throws 'Stripe transfer failed ... Coins
\* have been returned to user's account'.
ThrowsCoinsReturned(p) ==
    /\ ApproveStep(p)
    /\ req[p].pc # "done"
    /\ req'[p].pc = "done"
    /\ req'[p].msg = StripeFailedMsg

\* C8: whenever approveRedemption throws 'Stripe transfer failed ... Coins have
\* been returned', the request's status is 'failed', exactly coins_requested has
\* moved from the user's locked_coins back to coins, and the call has recorded a
\* 'redeem_rejected' ledger row.
C8_CoinsReturnedOnStripeFailure ==
    [][\A p \in Procs :
          ThrowsCoinsReturned(p) =>
              LET r == req'[p]
                  coinsRequested == redemption_requests[r.ref].coins_requested
              IN  /\ redemption_requests'[r.ref].status = "failed"
                  /\ users'[r.user].coins = users[r.user].coins + coinsRequested
                  /\ users'[r.user].locked_coins =
                         users[r.user].locked_coins - coinsRequested
                  /\ \E i \in 1..Len(coin_transactions') :
                         /\ coin_transactions'[i].rid = r.rid
                         /\ coin_transactions'[i].type = "redeem_rejected"
                         /\ coin_transactions'[i].amount = coinsRequested
                         /\ coin_transactions'[i].ref_id = r.ref]_vars

AtMostOneTransfer == \A id \in RedemptionIds : Cardinality(TransfersOf(id)) <= 1

LockedRemovedAtMostOnce == \A id \in RedemptionIds : Cardinality(RemovalsOf(id)) <= 1

\* C10: under any interleaving of approveRedemption and rejectRedemption calls on
\* one redemption request, at most one Stripe transfer is created for it and its
\* coins_requested leaves locked_coins at most once.
C10_AtMostOneTransferAndRemoval == AtMostOneTransfer /\ LockedRemovedAtMostOnce

\* A step of an approveRedemption call that moves coins back to the balance of
\* the user of the request.
ApproveReturnsCoins(p) ==
    /\ ApproveStep(p)
    /\ req'[p].user \in Users
    /\ users'[req'[p].user].coins > users[req'[p].user].coins

\* C11: approveRedemption returns the coins reserved for a request to the user's
\* balance only if no Stripe transfer was created for that request (also when
\* the update that marks the request 'paid' fails after the transfer).
C11_NoReturnAfterTransfer ==
    [][\A p \in Procs :
          ApproveReturnsCoins(p) => TransfersOf(req'[p].ref) = {}]_vars

\* The status changes of the redemption workflow.
StatusMoves ==
    {<<"pending", "approved">>, <<"approved", "paid">>, <<"approved", "failed">>,
     <<"pending", "rejected">>, <<"under_review", "rejected">>}

\* C12: a redemption request's status only moves pending -> approved -> paid,
\* pending -> approved -> failed or pending/under_review -> rejected; a paid,
\* rejected or failed request never changes its status again.
C12_StatusMoves ==
    [][\A id \in 1..Len(redemption_requests) :
          \/ redemption_requests'[id].status = redemption_requests[id].status
          \/ <<redemption_requests[id].status, redemption_requests'[id].status>>
                 \in StatusMoves]_vars

\* The step in which an approveRedemption call on an existing request ends.
ApproveCompletes(p) ==
    /\ ApproveStep(p)
    /\ req'[p].pc = "done"
    /\ Exists(req'[p].ref)

\* C13: approveRedemption approves, executes the payout and marks the request
\* paid.  When a call returns success the request is 'paid', and when a call that
\* set the request to 'approved' ends the request is 'paid' or 'failed'.
C13_ApproveEndsPaidOrFailed ==
    [][\A p \in Procs :
          ApproveCompletes(p) =>
              LET status == redemption_requests'[req'[p].ref].status
              IN  /\ req'[p].resp = 200 => status = "paid"
                  /\ InFlight(p) => status \in {"paid", "failed"}]_vars

\* The step in which a createRedemptionRequest call with a valid amount is made
\* while the user has a pending request.
CreateWhilePending(p) ==
    /\ req[p].pc \in {"idle", "done"}
    /\ req'[p] # req[p]
    /\ req'[p].op = "create"
    /\ req'[p].amount >= REDEMPTION_MIN_COINS
    /\ req'[p].amount <= REDEMPTION_MAX_COINS
    /\ existingPending(req'[p].user) # {}

AtMostOnePending == \A u \in Users : Cardinality(existingPending(u)) <= 1

\* C14: a user has at most one open redemption request.  At no time do two
\* requests of one user have status pending or under_review, and a call made
\* while one exists fails with 'You already have a pending redemption request'
\* and changes no balance.
C14_OneOpenRequestPerUser ==
    /\ []AtMostOnePending
    /\ [][\A p \in Procs :
             CreateWhilePending(p) =>
                 /\ req'[p].pc = "done"
                 /\ req'[p].resp = 400
                 /\ req'[p].msg = "You already have a pending redemption request"
                 /\ users' = users]_vars

\* The step in which createRedemptionRequest commits and the route answers 201.
CreateSucceeds(p) ==
    /\ req'[p] # req[p]
    /\ req'[p].op = "create"
    /\ req'[p].resp = 201

\* The step in which rejectRedemption commits.
RejectSucceeds(p) ==
    /\ req'[p] # req[p]
    /\ req'[p].op = "reject"
    /\ req'[p].resp = 200

\* C15: locking and unlocking are inverse moves between the two balances.  A
\* successful createRedemptionRequest(user, n) takes n from coins and adds n to
\* locked_coins, and rejectRedemption of that request adds n to coins and takes n
\* from locked_coins, which restores both values.
C15_LockUnlockInverse ==
    [][\A p \in Procs :
          /\ CreateSucceeds(p) =>
                users' = [users EXCEPT
                             ![req'[p].user].coins = @ - req'[p].amount,
                             ![req'[p].user].locked_coins = @ + req'[p].amount]
          /\ RejectSucceeds(p) =>
                LET redemption == redemption_requests[req'[p].ref]
                IN  users' = [users EXCEPT
                                 ![redemption.user_id].coins =
                                     @ + redemption.coins_requested,
                                 ![redemption.user_id].locked_coins =
                                     @ - redemption.coins_requested]]_vars

\* A request was created and then rejected, and the user's balances are what
\* they were before the request.
C15_Witness ==
    \E p \in Procs :
        /\ req[p].op = "reject"
        /\ req[p].resp = 200
        /\ redemption_requests[req[p].ref].status = "rejected"
        /\ users[req[p].user] = [coins |-> RedeemInitCoins, locked_coins |-> 0]

\* C16: balances never go negative.  In every reachable state every user's coins
\* and locked_coins are at least 0.
C16_BalancesNonNegative ==
    \A u \in Users : users[u].coins >= 0 /\ users[u].locked_coins >= 0

(***************************************************************************)
(* Order status: PUT /api/orders/:id/status.  The handler reads the order  *)
(* on the pool, then calls coinService.creditCoins, refundCoins and        *)
(* deductCoins, each of which runs and commits a transaction on a          *)
(* connection of its own, and then writes the notifications and the new    *)
(* status in the handler's transaction.  An order has been created and    *)
(* the buyer has paid its coin cost.                                       *)
(***************************************************************************)
MaxStatusRequests == 3     \* status requests issued in one behaviour

OrderIds == {1}
UnknownOrder == 0
OrderStatuses == {"pending", "active", "completed", "cancelled"}
InvalidStatus == "shipped"

\* The order and the ledger as POST /api/orders left them.
InitOrders(price) ==
    <<[buyer_id |-> "buyer", field_id |-> 1, total_price |-> price,
       status |-> "pending", rid |-> 0]>>

InitOrderLedger(price) ==
    <<LedgerRow("buyer", "debit", calculateCoinCost(price), InitCoins, "order", 0, 0)>>

CanStartStatus(p) == req[p].pc \in {"idle", "done"} /\ issued < MaxStatusRequests

\* options.refId of a coinService call: the order id on the ledger row it inserts.
WithRefId(res, refId) ==
    IF res.ok
    THEN [res EXCEPT !.ledger = [@ EXCEPT ![Len(@)].ref_id = refId]]
    ELSE res

\* coinService.refundCoins: creditCoins with the caller's refType.
refundCoins(userId, amount, refType, rid) == creditCoins(userId, amount, refType, rid)

\* The branch of the coin logic that oldStatus and status select.
CoinBranch(oldStatus, status) ==
    IF oldStatus = "pending" /\ status = "active" THEN "credit_farmer"
    ELSE IF oldStatus = "pending" /\ status = "cancelled" THEN "refund_buyer"
    ELSE IF oldStatus \in {"active", "completed"} /\ status = "cancelled"
         THEN "deduct_farmer"
    ELSE "update_status"

\* PUT /api/orders/:id/status up to BEGIN: the status check, the two SELECTs on
\* the pool, the owner check; oldStatus is what the second SELECT returned.
StatusBegin(p) ==
    /\ CanStartStatus(p)
    /\ \E caller \in Callers, id \in OrderIds \cup {UnknownOrder},
          status \in OrderStatuses \cup {InvalidStatus} :
          LET r == [NewRequest("status", caller, "none", 0)
                        EXCEPT !.ref = id, !.status = status]
          IN  req' = [req EXCEPT ![p] =
                 IF status \notin OrderStatuses THEN Respond(r, 400, "Invalid status")
                 ELSE IF id \notin 1..Len(orders) THEN Respond(r, 404, "Order not found")
                 ELSE IF caller # "admin" /\ caller # FieldOwner(orders[id].field_id)
                      THEN Respond(r, 403, "Only the field owner or admin")
                 ELSE [r EXCEPT !.oldStatus = orders[id].status,
                                !.user = orders[id].buyer_id,
                                !.amount = calculateCoinCost(orders[id].total_price),
                                !.pc = CoinBranch(orders[id].status, status)]]
    /\ issued' = issued + 1
    /\ UNCHANGED <<qaVars, dbVars, redeemVars, rowLock, env, deployed, faults, acked>>

\* Branch 1, pending -> active: coinService.creditCoins for the farmer commits.
StatusCredit(p) ==
    /\ req[p].op = "status" /\ req[p].pc = "credit_farmer"
    /\ LET r == req[p]
           res == WithRefId(creditCoins(FieldOwner(orders[r.ref].field_id), r.amount,
                                        "order", r.rid), r.ref)
       IN  /\ users' = res.users
           /\ coin_transactions' = res.ledger
           /\ req' = [req EXCEPT ![p].pc = "update_status"]
    /\ UNCHANGED <<qaVars, coin_purchases, orders, notifications, redeemVars, rowLock, env,
                   deployed, issued, faults, acked>>

\* Branches 2 and 3: coinService.refundCoins for the buyer commits.
StatusRefund(p) ==
    /\ req[p].op = "status" /\ req[p].pc = "refund_buyer"
    /\ LET r == req[p]
           res == WithRefId(refundCoins(r.user, r.amount, "order", r.rid), r.ref)
       IN  /\ users' = res.users
           /\ coin_transactions' = res.ledger
           /\ req' = [req EXCEPT ![p].pc = "update_status"]
    /\ UNCHANGED <<qaVars, coin_purchases, orders, notifications, redeemVars, rowLock, env,
                   deployed, issued, faults, acked>>

\* creditCoins or refundCoins throws: its transaction is rolled back, the
\* handler's too, and the outer catch answers 500.
StatusCreditFails(p) ==
    /\ req[p].op = "status" /\ req[p].pc \in {"credit_farmer", "refund_buyer"}
    /\ CanFail
    /\ faults' = faults + 1
    /\ req' = [req EXCEPT ![p] = Respond(req[p], 500, "Server Error")]
    /\ UNCHANGED <<qaVars, dbVars, redeemVars, rowLock, env, deployed, issued, acked>>

\* Branch 3, active/completed -> cancelled: coinService.deductCoins for the
\* farmer; when it throws 'Insufficient coins' the handler rolls back and
\* answers 400.
StatusDeduct(p) ==
    /\ req[p].op = "status" /\ req[p].pc = "deduct_farmer"
    /\ LET r == req[p]
           res == WithRefId(deductCoins(FieldOwner(orders[r.ref].field_id), r.amount,
                                        "order", r.rid), r.ref)
       IN  /\ users' = res.users
           /\ coin_transactions' = res.ledger
           /\ req' = [req EXCEPT ![p] =
                  IF res.ok THEN [r EXCEPT !.pc = "refund_buyer"]
                  ELSE Respond(r, 400, "Cancellation failed")]
    /\ UNCHANGED <<qaVars, coin_purchases, orders, notifications, redeemVars, rowLock, env,
                   deployed, issued, faults, acked>>

\* deductCoins throws for another reason: the same catch answers 400.
StatusDeductFails(p) ==
    /\ req[p].op = "status" /\ req[p].pc = "deduct_farmer"
    /\ CanFail
    /\ faults' = faults + 1
    /\ req' = [req EXCEPT ![p] = Respond(req[p], 400, "Cancellation failed")]
    /\ UNCHANGED <<qaVars, dbVars, redeemVars, rowLock, env, deployed, issued, acked>>

\* The notifications the branch of the coin logic inserts.
StatusNotifications(r) ==
    IF r.oldStatus = "pending" /\ r.status = "active"
    THEN <<[user_id |-> r.user, type |-> "success"]>>
    ELSE IF r.oldStatus = "pending" /\ r.status = "cancelled"
    THEN <<[user_id |-> r.user, type |-> "info"]>>
    ELSE IF r.oldStatus \in {"active", "completed"} /\ r.status = "cancelled"
    THEN <<[user_id |-> FieldOwner(orders[r.ref].field_id), type |-> "warning"],
           [user_id |-> r.user, type |-> "info"]>>
    ELSE <<>>

\* The handler's transaction: the notifications of the branch, UPDATE orders SET
\* status, COMMIT, 200.
StatusUpdate(p) ==
    /\ req[p].op = "status" /\ req[p].pc = "update_status"
    /\ LET r == req[p]
       IN  /\ notifications' = notifications \o StatusNotifications(r)
           /\ orders' = [orders EXCEPT ![r.ref].status = r.status]
           /\ req' = [req EXCEPT ![p] = Respond(r, 200, "updated")]
    /\ UNCHANGED <<qaVars, users, coin_transactions, coin_purchases, redeemVars, rowLock, env,
                   deployed, issued, faults, acked>>

\* An INSERT of a notification or the UPDATE of the order throws: ROLLBACK of the
\* handler's transaction, 500.  The coinService calls have committed.
StatusUpdateFails(p) ==
    /\ req[p].op = "status" /\ req[p].pc = "update_status"
    /\ CanFail
    /\ faults' = faults + 1
    /\ req' = [req EXCEPT ![p] = Respond(req[p], 500, "Server Error")]
    /\ UNCHANGED <<qaVars, dbVars, redeemVars, rowLock, env, deployed, issued, acked>>

InitOrdersSpec ==
    /\ users = [u \in Users |-> [coins |-> InitCoins, locked_coins |-> 0]]
    /\ \E price \in Prices :
          /\ orders = InitOrders(price)
          /\ coin_transactions = InitOrderLedger(price)
    /\ coin_purchases = InitPurchases
    /\ notifications = <<>>
    /\ redemption_requests = <<>>
    /\ transfers = <<>>
    /\ succeeded = {}
    /\ acked = [u \in Users |-> 0]
    /\ rowLock = [id \in PurchaseIds |-> NoProc]
    /\ env = [STRIPE_SECRET_KEY |-> TRUE, STRIPE_WEBHOOK_SECRET |-> TRUE]
    /\ deployed = "webhooks.js"
    /\ req = [p \in Procs |-> Idle]
    /\ issued = 0
    /\ faults = 0
    /\ complaints = <<>>
    /\ complaint_proofs = <<>>
    /\ user_payout_methods = {}
    /\ payout_method_seq = 0

NextOrders ==
    \E p \in Procs :
        \/ StatusBegin(p)
        \/ StatusCredit(p)
        \/ StatusRefund(p)
        \/ StatusCreditFails(p)
        \/ StatusDeduct(p)
        \/ StatusDeductFails(p)
        \/ StatusUpdate(p)
        \/ StatusUpdateFails(p)

SpecOrders == InitOrdersSpec /\ [][NextOrders]_vars

(***************************************************************************)
(* Claims about the order status route.                                    *)
(***************************************************************************)
RECURSIVE OrderCoins(_, _, _, _)
\* The coins of the ledger rows of the given type that the coinService calls for
\* order id inserted for userId, among the first n rows.
OrderCoins(n, userId, type, id) ==
    IF n = 0 THEN 0
    ELSE OrderCoins(n - 1, userId, type, id) +
         (IF /\ coin_transactions[n].ref_type = "order"
             /\ coin_transactions[n].ref_id = id
             /\ coin_transactions[n].user_id = userId
             /\ coin_transactions[n].type = type
          THEN coin_transactions[n].amount ELSE 0)

\* The coins refunded to the buyer of order id.
Refunded(id) == OrderCoins(Len(coin_transactions), orders[id].buyer_id, "credit", id)

\* The farmer's net credit for order id.
FarmerNet(id) ==
    OrderCoins(Len(coin_transactions), FieldOwner(orders[id].field_id), "credit", id)
        - OrderCoins(Len(coin_transactions), FieldOwner(orders[id].field_id), "debit", id)

\* C17: over any sequence of PUT /api/orders/:id/status requests the coins
\* refunded to the buyer for an order never exceed the coins deducted from the
\* buyer when the order was created, and the farmer's net credit for the order
\* never exceeds that amount.
C17_RefundAndCreditBounded ==
    \A id \in 1..Len(orders) :
        /\ Refunded(id) <= calculateCoinCost(orders[id].total_price)
        /\ FarmerNet(id) <= calculateCoinCost(orders[id].total_price)

\* Process p has applied the coin effect of leaving 'pending' for order id and
\* has not yet written the new status.
PendingEffectApplied(p, id) ==
    /\ req[p].op = "status"
    /\ req[p].ref = id
    /\ req[p].oldStatus = "pending"
    /\ req[p].pc = "update_status"
    /\ req[p].status \in {"active", "cancelled"}

\* The step in which process p applies the coin effect of leaving 'pending': the
\* farmer's credit for pending -> active or the buyer's refund for
\* pending -> cancelled.
AppliesPendingEffect(p) ==
    /\ req[p].op = "status"
    /\ req[p].oldStatus = "pending"
    /\ req[p].pc \in {"credit_farmer", "refund_buyer"}
    /\ req'[p].pc = "update_status"

\* C18: when PUT /api/orders/:id/status requests for one pending order overlap,
\* the coin effect of the transition is applied once.  No request applies the
\* farmer's credit or the buyer's refund for a pending order while another
\* request has applied either of them and the order has not left 'pending'.
C18_PendingEffectOnce ==
    [][\A p \in Procs :
          AppliesPendingEffect(p) =>
              \A q \in Procs \ {p} : ~PendingEffectApplied(q, req[p].ref)]_vars

\* The step in which a reversal request (active/completed -> cancelled) that has
\* reached the coin logic ends.
ReversalEnds(p) ==
    /\ req[p].op = "status"
    /\ req[p].oldStatus \in {"active", "completed"}
    /\ req[p].status = "cancelled"
    /\ InFlight(p)
    /\ req'[p].pc = "done"

\* The ledger rows of request rid after the step, as <<user, type, amount>>.
RowsAfter(rid) ==
    {<<coin_transactions'[i].user_id, coin_transactions'[i].type,
       coin_transactions'[i].amount>> :
        i \in {j \in 1..Len(coin_transactions') : coin_transactions'[j].rid = rid}}

\* C19: the order status update is atomic with its coin logic.  When a reversal
\* ends, either it answered 200, the farmer was debited, the buyer was refunded
\* the same amount and the order is cancelled, or it answered an error and it
\* left no ledger row and did not change the order; with an insufficient farmer
\* balance it answers 400.
C19_ReversalAtomic ==
    [][\A p \in Procs :
          ReversalEnds(p) =>
              LET r == req'[p]
                  farmer == FieldOwner(orders[r.ref].field_id)
              IN  \/ /\ r.resp = 200
                     /\ orders'[r.ref].status = "cancelled"
                     /\ RowsAfter(r.rid) =
                            {<<farmer, "debit", r.amount>>, <<r.user, "credit", r.amount>>}
                  \/ /\ r.resp >= 400
                     /\ RowsAfter(r.rid) = {}
                     /\ orders' = orders
                     /\ users' = users
                     /\ (req[p].pc = "deduct_farmer" => r.resp = 400)]_vars

(***************************************************************************)
(* Claims about the ledger.                                                *)
(***************************************************************************)
LedgerRowsOf(u) == {i \in 1..Len(coin_transactions) : coin_transactions[i].user_id = u}

LatestRow(u) == CHOOSE i \in LedgerRowsOf(u) : \A j \in LedgerRowsOf(u) : j <= i

\* users.coins of u is the balance_after of u's latest ledger row, or the
\* starting balance when u has no row.
BalanceIsLatestRow(u) ==
    IF LedgerRowsOf(u) = {} THEN users[u].coins = InitCoins
    ELSE users[u].coins = coin_transactions[LatestRow(u)].balance_after

LedgerMatchesBalance == \A u \in Users : BalanceIsLatestRow(u)

\* The step appends a ledger row for u that records the change of u's coins.
ChangeRecorded(u) ==
    /\ Len(coin_transactions') = Len(coin_transactions) + 1
    /\ LET row == coin_transactions'[Len(coin_transactions')]
           change == users'[u].coins - users[u].coins
       IN  /\ row.user_id = u
           /\ row.amount = (IF change < 0 THEN 0 - change ELSE change)
           /\ row.balance_after = users'[u].coins

\* C20: the ledger is consistent with the balance.  Every committed change of a
\* user's coins comes with a coin_transactions row for that user, of the size
\* of the change and with balance_after the new balance, so users.coins always
\* equals the balance_after of the user's latest row.
C20_LedgerMatchesBalance ==
    /\ []LedgerMatchesBalance
    /\ [][\A u \in Users :
             users'[u].coins # users[u].coins => ChangeRecorded(u)]_vars

(***************************************************************************)
(* scripts/unlock_failed_redemptions.js, run beside the redemption routes. *)
(* The script is one transaction: it selects the failed redemptions, and   *)
(* for each of them locks the user row and unlocks the coins.  No other    *)
(* transaction holds a user row across steps, so the loop is one step that *)
(* follows the SELECT.                                                     *)
(***************************************************************************)
MaxScriptRuns == 1     \* runs of the script beside the redemption requests

CanStartScript(p) ==
    /\ req[p].pc \in {"idle", "done"}
    /\ issued < MaxRedeemRequests + MaxScriptRuns

RECURSIVE failedRedemptions(_)
\* SELECT ... FROM redemption_requests r WHERE r.status = 'failed'
\*   ORDER BY r.created_at DESC, among the first n requests
failedRedemptions(n) ==
    IF n = 0 THEN <<>>
    ELSE (IF redemption_requests[n].status = "failed" THEN <<n>> ELSE <<>>)
             \o failedRedemptions(n - 1)

RECURSIVE UnlockLoop(_, _, _, _)
\* for (const redemption of failedRedemptions.rows): the users table and the
\* ledger after the loop has gone through rows.
UnlockLoop(rows, us, ledger, rid) ==
    IF rows = <<>> THEN [users |-> us, ledger |-> ledger]
    ELSE LET id == Head(rows)
             userId == redemption_requests[id].user_id
             coinsRequested == redemption_requests[id].coins_requested
             currentLocked == us[userId].locked_coins
             unlocked == [us EXCEPT ![userId].coins = @ + coinsRequested,
                                    ![userId].locked_coins = @ - coinsRequested]
             newBalance == unlocked[userId].coins
             existingTx == {i \in 1..Len(ledger) :
                               /\ ledger[i].ref_type = "redemption_request"
                               /\ ledger[i].ref_id = id
                               /\ ledger[i].type = "redeem_rejected"}
         IN  IF currentLocked >= coinsRequested
             THEN UnlockLoop(Tail(rows), unlocked,
                             IF existingTx = {}
                             THEN Append(ledger,
                                      LedgerRow(userId, "redeem_rejected", coinsRequested,
                                                newBalance, "redemption_request", id, rid))
                             ELSE ledger,
                             rid)
             ELSE UnlockLoop(Tail(rows), us, ledger, rid)

\* unlockFailedRedemptions: BEGIN and the SELECT of the failed redemptions.
ScriptSelect(p) ==
    /\ CanStartScript(p)
    /\ req' = [req EXCEPT ![p] =
          [NewRequest("script", "admin", "none", 0)
              EXCEPT !.rows = failedRedemptions(Len(redemption_requests)),
                     !.pc = "unlock"]]
    /\ issued' = issued + 1
    /\ UNCHANGED <<qaVars, dbVars, redeemVars, rowLock, env, deployed, faults, acked>>

\* unlockFailedRedemptions: the loop and COMMIT.
ScriptUnlock(p) ==
    /\ req[p].op = "script" /\ req[p].pc = "unlock"
    /\ LET res == UnlockLoop(req[p].rows, users, coin_transactions, req[p].rid)
       IN  /\ users' = res.users
           /\ coin_transactions' = res.ledger
    /\ req' = [req EXCEPT ![p] = Respond(req[p], 0, "Done!")]
    /\ UNCHANGED <<qaVars, coin_purchases, orders, notifications, redeemVars, rowLock, env,
                   deployed, issued, faults, acked>>

\* unlockFailedRedemptions: a statement throws; ROLLBACK, exit code 1.
ScriptFails(p) ==
    /\ req[p].op = "script" /\ req[p].pc = "unlock"
    /\ CanFail
    /\ faults' = faults + 1
    /\ req' = [req EXCEPT ![p] = Respond(req[p], 1, "Failed")]
    /\ UNCHANGED <<qaVars, dbVars, redeemVars, rowLock, env, deployed, issued, acked>>

NextUnlock ==
    \/ NextRedeem
    \/ \E p \in Procs :
          \/ ScriptSelect(p)
          \/ ScriptUnlock(p)
          \/ ScriptFails(p)

SpecUnlock == InitRedeem /\ [][NextUnlock]_vars

RECURSIVE StillLocked(_, _)
\* The coins of the failed requests of user u, among the first n requests, that
\* no transaction has taken out of locked_coins.
StillLocked(u, n) ==
    IF n = 0 THEN 0
    ELSE StillLocked(u, n - 1) +
         (IF /\ redemption_requests[n].user_id = u
             /\ redemption_requests[n].status = "failed"
             /\ RemovalsOf(n) = {}
          THEN redemption_requests[n].coins_requested ELSE 0)

\* The step in which the script's transaction commits.
ScriptCommits(p) ==
    /\ req[p].op = "script"
    /\ req[p].pc = "unlock"
    /\ req'[p].resp = 0
    /\ req'[p].pc = "done"

\* C21: unlockFailedRedemptions only unlocks coins that are still locked for a
\* failed redemption.  A run moves into a user's coins no more than the
\* coins_requested of the user's failed requests whose coins have not been taken
\* out of locked_coins before (by approveRedemption's failure handling or by an
\* earlier run), never coins reserved by another request, and it adds a ledger
\* row only for coins it moves.
C21_UnlocksOnlyStillLocked ==
    [][\A p \in Procs :
          ScriptCommits(p) =>
              /\ \A u \in Users :
                    users'[u].coins - users[u].coins
                        <= StillLocked(u, Len(redemption_requests))
              /\ (users' = users => coin_transactions' = coin_transactions)]_vars

(***************************************************************************)
(* Complaints: updateComplaintStatus and refundComplaint of the admin QA   *)
(* controller.  Both lock the complaint row with SELECT ... FOR UPDATE;    *)
(* refundComplaint then locks the complainant's users row, so it takes two *)
(* steps and holds the complaint's lock between them.                      *)
(***************************************************************************)
MaxComplaintRequests == 3  \* complaint requests issued in one behaviour

ComplaintIds == {1, 2}
UnknownComplaint == 0
RefundAmounts == {0, 1, 2}
ComplaintStatuses == {"open", "in_review", "resolved"}
RequestedStatuses == {"none", "open", "in_review", "resolved", "closed"}

\* The complaints table at the start: one open complaint of each user.
InitComplaints ==
    [id \in ComplaintIds |->
        [created_by |-> IF id = 1 THEN "buyer" ELSE "farmer", status |-> "open",
         refund_coins |-> 0, refunded_at |-> FALSE]]

CanStartComplaint(p) ==
    req[p].pc \in {"idle", "done"} /\ issued < MaxComplaintRequests

\* A table of transitions in which a resolved complaint can be opened again.
allowedTransitions_Reopen(current) ==
    IF current = "open" THEN {"in_review", "resolved"}
    ELSE IF current = "in_review" THEN {"resolved"}
    ELSE IF current = "resolved" THEN {"open"}
    ELSE {}

\* const allowedTransitions = { open: ..., in_review: ..., resolved: ... }; a
\* status the table does not hold has no entry (!allowed).
allowedTransitions(current) ==
    IF current = "open" THEN {"in_review", "resolved"}
    ELSE IF current = "in_review" THEN {"resolved"}
    ELSE {}

\* A handler that does not look at refunded_at.
alreadyRefunded_Unchecked(complaint) == FALSE

\* if (complaint.refunded_at)
alreadyRefunded(complaint) == complaint.refunded_at

\* updateComplaintStatus, all statements succeeding: the checks of the body,
\* BEGIN, SELECT ... FOR UPDATE (which waits while another transaction holds
\* the row), the transition check, UPDATE, COMMIT.
UpdateComplaintStatus(p) ==
    /\ CanStartComplaint(p)
    /\ \E id \in ComplaintIds \cup {UnknownComplaint}, status \in RequestedStatuses :
          LET r == [NewRequest("complaint_status", "admin", "none", 0)
                        EXCEPT !.ref = id, !.status = status]
          IN  IF status = "none"
              THEN /\ req' = [req EXCEPT ![p] = Respond(r, 400, "Missing status")]
                   /\ UNCHANGED complaints
              ELSE IF status \notin {"open", "in_review", "resolved"}
              THEN /\ req' = [req EXCEPT ![p] = Respond(r, 400, "Invalid status")]
                   /\ UNCHANGED complaints
              ELSE IF id \notin DOMAIN complaints
              THEN /\ req' = [req EXCEPT ![p] = Respond(r, 404, "Not Found")]
                   /\ UNCHANGED complaints
              ELSE /\ rowLock[id] = NoProc
                   /\ LET current == complaints[id].status
                          q == [r EXCEPT !.oldStatus = current]
                      IN  IF status \notin allowedTransitions(current)
                          THEN /\ req' = [req EXCEPT ![p] =
                                      Respond(q, 409, "Invalid transition")]
                               /\ UNCHANGED complaints
                          ELSE /\ complaints' = [complaints EXCEPT ![id].status = status]
                               /\ req' = [req EXCEPT ![p] = Respond(q, 200, "updated")]
    /\ issued' = issued + 1
    /\ UNCHANGED <<dbVars, redeemVars, rowLock, env, deployed, faults, acked,
                   complaint_proofs, user_payout_methods, payout_method_seq>>

\* updateComplaintStatus: the UPDATE throws; ROLLBACK, 500.
UpdateComplaintStatusFails(p) ==
    /\ CanStartComplaint(p) /\ CanFail
    /\ \E id \in ComplaintIds, status \in ComplaintStatuses :
          /\ rowLock[id] = NoProc
          /\ status \in allowedTransitions(complaints[id].status)
          /\ req' = [req EXCEPT ![p] =
                Respond([NewRequest("complaint_status", "admin", "none", 0)
                            EXCEPT !.ref = id, !.status = status,
                                   !.oldStatus = complaints[id].status],
                        500, "Server Error")]
    /\ issued' = issued + 1
    /\ faults' = faults + 1
    /\ UNCHANGED <<qaVars, dbVars, redeemVars, rowLock, env, deployed, acked>>

\* refundComplaint up to the lock of the users row: the check of the amount,
\* BEGIN, SELECT ... FOR UPDATE of the complaint, the refunded_at check.  The
\* complaint's lock is held from here to the COMMIT or ROLLBACK.
RefundComplaintBegin(p) ==
    /\ CanStartComplaint(p)
    /\ \E id \in ComplaintIds \cup {UnknownComplaint}, numAmount \in RefundAmounts :
          LET r == [NewRequest("refund", "admin", "none", numAmount) EXCEPT !.ref = id]
          IN  IF numAmount <= 0
              THEN /\ req' = [req EXCEPT ![p] =
                          Respond(r, 400, "Invalid or missing coins amount")]
                   /\ UNCHANGED rowLock
              ELSE IF id \notin DOMAIN complaints
              THEN /\ req' = [req EXCEPT ![p] = Respond(r, 404, "Complaint not found")]
                   /\ UNCHANGED rowLock
              ELSE /\ rowLock[id] = NoProc
                   /\ LET complaint == complaints[id]
                          q == [r EXCEPT !.user = complaint.created_by,
                                         !.late = complaint.refunded_at]
                      IN  IF alreadyRefunded(complaint)
                          THEN /\ req' = [req EXCEPT ![p] =
                                      Respond(q, 400,
                                              "This complaint has already been refunded")]
                               /\ UNCHANGED rowLock
                          ELSE /\ req' = [req EXCEPT ![p] = [q EXCEPT !.pc = "lock_user"]]
                               /\ rowLock' = [rowLock EXCEPT ![id] = p]
    /\ issued' = issued + 1
    /\ UNCHANGED <<qaVars, dbVars, redeemVars, env, deployed, faults, acked>>

\* refundComplaint from the lock of the users row: coins + amount, the
\* complaint gets refund_coins, refunded_at and status 'resolved', a 'credit'
\* ledger row, COMMIT.
RefundComplaintCredit(p) ==
    /\ req[p].op = "refund" /\ req[p].pc = "lock_user"
    /\ LET r == req[p]
           currentCoins == users[r.user].coins
           newCoins == currentCoins + r.amount
       IN  /\ users' = [users EXCEPT ![r.user].coins = newCoins]
           /\ complaints' = [complaints EXCEPT ![r.ref].refund_coins = r.amount,
                                               ![r.ref].refunded_at = TRUE,
                                               ![r.ref].status = "resolved"]
           /\ coin_transactions' = Append(coin_transactions,
                  LedgerRow(r.user, "credit", r.amount, newCoins, "complaint",
                            r.ref, r.rid))
           /\ rowLock' = [rowLock EXCEPT ![r.ref] = NoProc]
           /\ req' = [req EXCEPT ![p] =
                  Respond(r, 200, "Refund credited to complainant successfully")]
    /\ UNCHANGED <<coin_purchases, orders, notifications, redeemVars, env, deployed,
                   issued, faults, acked, complaint_proofs, user_payout_methods,
                   payout_method_seq>>

\* refundComplaint: a statement after the complaint's lock throws; ROLLBACK
\* releases the lock, 500.
RefundComplaintFails(p) ==
    /\ req[p].op = "refund" /\ req[p].pc = "lock_user"
    /\ CanFail
    /\ faults' = faults + 1
    /\ rowLock' = [rowLock EXCEPT ![req[p].ref] = NoProc]
    /\ req' = [req EXCEPT ![p] = Respond(req[p], 500, "Server Error")]
    /\ UNCHANGED <<qaVars, dbVars, redeemVars, env, deployed, issued, acked>>

InitComplaintsSpec ==
    /\ users = [u \in Users |-> [coins |-> InitCoins, locked_coins |-> 0]]
    /\ coin_transactions = <<>>
    /\ coin_purchases = InitPurchases
    /\ orders = <<>>
    /\ notifications = <<>>
    /\ redemption_requests = <<>>
    /\ transfers = <<>>
    /\ succeeded = {}
    /\ acked = [u \in Users |-> 0]
    /\ rowLock = [id \in ComplaintIds |-> NoProc]
    /\ env = [STRIPE_SECRET_KEY |-> TRUE, STRIPE_WEBHOOK_SECRET |-> TRUE]
    /\ deployed = "webhooks.js"
    /\ req = [p \in Procs |-> Idle]
    /\ issued = 0
    /\ faults = 0
    /\ complaints = InitComplaints
    /\ complaint_proofs = <<>>
    /\ user_payout_methods = {}
    /\ payout_method_seq = 0

NextComplaints ==
    \E p \in Procs :
        \/ UpdateComplaintStatus(p)
        \/ UpdateComplaintStatusFails(p)
        \/ RefundComplaintBegin(p)
        \/ RefundComplaintCredit(p)
        \/ RefundComplaintFails(p)

SpecComplaints == InitComplaintsSpec /\ [][NextComplaints]_vars

(***************************************************************************)
(* C22: a complaint is refunded at most once.                              *)
(***************************************************************************)
\* The 'credit' ledger rows of complaint c.
RefundRows(c) == RowsOf("complaint", c, "credit")

\* A complaint that is refunded has one 'credit' row of refund_coins, is
\* resolved, and its author holds exactly that many coins more; one that is
\* not refunded has no such row and its author's balance is as at the start.
RefundedOnce ==
    \A c \in ComplaintIds :
        LET complaint == complaints[c]
        IN  /\ Cardinality(RefundRows(c)) = (IF complaint.refunded_at THEN 1 ELSE 0)
            /\ \A i \in RefundRows(c) :
                  /\ coin_transactions[i].amount = complaint.refund_coins
                  /\ coin_transactions[i].user_id = complaint.created_by
            /\ complaint.refunded_at => complaint.status = "resolved"
            /\ users[complaint.created_by].coins =
                  InitCoins + (IF complaint.refunded_at THEN complaint.refund_coins ELSE 0)

\* The step in which process p answers a refundComplaint call.
RefundAnswers(p) ==
    /\ req'[p] # req[p]
    /\ req'[p].op = "refund"
    /\ req'[p].pc = "done"

\* A call that credits finds the complaint not refunded and adds its amount;
\* every other call changes no balance, no complaint and no ledger row, and a
\* call for a refunded complaint is answered 400 'already refunded'.
RefundCallsExclusive ==
    \A p \in Procs :
        RefundAnswers(p) =>
            LET r == req'[p]
            IN  IF r.resp = 200
                THEN /\ ~complaints[r.ref].refunded_at
                     /\ complaints'[r.ref].refunded_at
                     /\ users'[r.user].coins = users[r.user].coins + r.amount
                     /\ Len(coin_transactions') = Len(coin_transactions) + 1
                ELSE /\ users' = users
                     /\ coin_transactions' = coin_transactions
                     /\ complaints' = complaints
                     /\ (r.ref \in ComplaintIds /\ r.amount > 0
                            /\ complaints[r.ref].refunded_at)
                          => (r.resp = 400
                              /\ r.msg = "This complaint has already been refunded")

\* C22: under any interleaving of refundComplaint calls a complaint is credited
\* at most once (one 'credit' ledger row, refunded_at set, status resolved,
\* the author's coins raised by the amount), and every call for a complaint
\* that is already refunded is answered 400 'This complaint has already been
\* refunded' and changes no balance.
C22_RefundedAtMostOnce == []RefundedOnce /\ [][RefundCallsExclusive]_vars

\* One call has credited complaint c and another call for c was answered 400.
C22_Witness ==
    \E p, q \in Procs :
        /\ p # q
        /\ req[p].op = "refund" /\ req[p].pc = "done" /\ req[p].resp = 200
        /\ req[q].op = "refund" /\ req[q].pc = "done" /\ req[q].resp = 400
        /\ req[q].ref = req[p].ref
        /\ req[q].msg = "This complaint has already been refunded"

(***************************************************************************)
(* C23: a complaint's status only moves forward.                           *)
(***************************************************************************)
ForwardMoves ==
    {<<"open", "in_review">>, <<"open", "resolved">>, <<"in_review", "resolved">>}

\* Whatever step changes a complaint's status moves it forward, so a resolved
\* complaint stays resolved.
ComplaintMovesForward ==
    \A c \in ComplaintIds :
        \/ complaints'[c].status = complaints[c].status
        \/ <<complaints[c].status, complaints'[c].status>> \in ForwardMoves

\* The step in which process p answers an updateComplaintStatus call that
\* names a complaint that exists and a status of the list.
ComplaintStatusAnswers(p) ==
    /\ req'[p] # req[p]
    /\ req'[p].op = "complaint_status"
    /\ req'[p].pc = "done"
    /\ req'[p].ref \in ComplaintIds
    /\ req'[p].status \in ComplaintStatuses
    /\ req'[p].resp # 500

\* Such a call changes the status when the move is a forward one, and is
\* answered 409 with the complaint unchanged when it is not.
OnlyForwardAccepted ==
    \A p \in Procs :
        ComplaintStatusAnswers(p) =>
            LET r == req'[p]
            IN  IF <<complaints[r.ref].status, r.status>> \in ForwardMoves
                THEN /\ r.resp = 200
                     /\ complaints' = [complaints EXCEPT ![r.ref].status = r.status]
                ELSE /\ r.resp = 409
                     /\ complaints' = complaints

\* C23: updateComplaintStatus changes the status only along open -> in_review,
\* open -> resolved and in_review -> resolved; every other requested transition
\* (to the same status, backwards, out of resolved) is answered 409 and leaves
\* the complaint unchanged; a complaint resolved by a status update or by
\* refundComplaint never leaves resolved.
C23_StatusOnlyForward == [][ComplaintMovesForward /\ OnlyForwardAccepted]_vars

\* A resolved complaint was asked to leave resolved and the call got 409.
C23_Witness ==
    \E p \in Procs :
        /\ req[p].op = "complaint_status" /\ req[p].pc = "done"
        /\ req[p].resp = 409
        /\ req[p].oldStatus = "resolved"
        /\ req[p].status \in {"open", "in_review"}
        /\ complaints[req[p].ref].status = "resolved"
        /\ complaints[req[p].ref].refunded_at

(***************************************************************************)
(* Complaint proofs: POST /api/complaints/:id/proofs.  Every statement of  *)
(* the route runs on the pool, so each is a step of its own.               *)
(***************************************************************************)
MAX_PROOFS_PER_COMPLAINT == 5
MaxProofRequests == 2      \* proof requests issued in one behaviour

ProofCallers == {"buyer", "farmer", "admin"}

\* req.body.proofs by the file_url of its entries; "" is an entry without one.
ProofLists ==
    {<<>>, <<"a">>, <<"a", "">>, <<"a", "b", "c">>,
     <<"a", "b", "c", "d", "e", "f">>}

CanStartProofs(p) == req[p].pc \in {"idle", "done"} /\ issued < MaxProofRequests

\* SELECT COUNT(*)::int AS n FROM complaint_proofs WHERE complaint_id = $1
proofCount(id) ==
    Cardinality({i \in 1..Len(complaint_proofs) : complaint_proofs[i].complaint_id = id})

RECURSIVE skipNoUrl(_)
\* if (!file_url) continue;  the list from its next entry that has a file_url
skipNoUrl(list) ==
    IF list = <<>> THEN <<>>
    ELSE IF Head(list) = "" THEN skipNoUrl(Tail(list))
    ELSE list

\* The route up to its second query: the list, SELECT of the complaint, the
\* author-or-admin check.
ProofsBegin(p) ==
    /\ CanStartProofs(p)
    /\ \E id \in ComplaintIds \cup {UnknownComplaint}, caller \in ProofCallers,
          list \in ProofLists :
          LET r == [NewRequest("proofs", caller, "none", Len(list))
                        EXCEPT !.ref = id, !.rows = list]
          IN  req' = [req EXCEPT ![p] =
                 IF Len(list) = 0 THEN Respond(r, 400, "Provide proofs array")
                 ELSE IF id \notin DOMAIN complaints
                      THEN Respond(r, 404, "Complaint not found")
                 ELSE IF complaints[id].created_by # caller /\ caller # "admin"
                      THEN Respond(r, 403, "Only the complaint author or an admin")
                 ELSE [r EXCEPT !.pc = "count", !.user = complaints[id].created_by]]
    /\ issued' = issued + 1
    /\ UNCHANGED <<qaVars, dbVars, redeemVars, rowLock, env, deployed, faults, acked>>

\* SELECT COUNT(*) and the two checks against the limit; a list whose entries
\* all lack a file_url is answered 201 without an INSERT.
ProofsCount(p) ==
    /\ req[p].op = "proofs" /\ req[p].pc = "count"
    /\ LET r == req[p]
           currentCount == proofCount(r.ref)
           wouldBe == currentCount + Len(r.rows)
       IN  req' = [req EXCEPT ![p] =
              IF currentCount >= MAX_PROOFS_PER_COMPLAINT
              THEN Respond(r, 400, "Maximum documents per complaint")
              ELSE IF wouldBe > MAX_PROOFS_PER_COMPLAINT
              THEN Respond(r, 400, "adding would exceed the limit")
              ELSE IF skipNoUrl(r.rows) = <<>>
              THEN Respond(r, 201, "proofs")
              ELSE [r EXCEPT !.pc = "insert", !.read = currentCount,
                             !.rows = skipNoUrl(r.rows)]]
    /\ UNCHANGED <<qaVars, dbVars, redeemVars, rowLock, env, deployed, issued,
                   faults, acked>>

\* One INSERT INTO complaint_proofs of the loop; after the last one 201.
ProofsInsert(p) ==
    /\ req[p].op = "proofs" /\ req[p].pc = "insert"
    /\ LET r == req[p]
           rest == skipNoUrl(Tail(r.rows))
       IN  /\ complaint_proofs' = Append(complaint_proofs,
                  [complaint_id |-> r.ref, file_url |-> Head(r.rows), rid |-> r.rid])
           /\ req' = [req EXCEPT ![p] =
                  IF rest = <<>> THEN Respond([r EXCEPT !.rows = rest], 201, "proofs")
                  ELSE [r EXCEPT !.rows = rest]]
    /\ UNCHANGED <<dbVars, redeemVars, rowLock, env, deployed, issued, faults, acked,
                   complaints, user_payout_methods, payout_method_seq>>

\* An INSERT of the loop throws: 500; the rows inserted before it stay.
ProofsInsertFails(p) ==
    /\ req[p].op = "proofs" /\ req[p].pc = "insert"
    /\ CanFail
    /\ faults' = faults + 1
    /\ req' = [req EXCEPT ![p] = Respond(req[p], 500, "Server Error")]
    /\ UNCHANGED <<qaVars, dbVars, redeemVars, rowLock, env, deployed, issued, acked>>

NextProofs ==
    \E p \in Procs :
        \/ ProofsBegin(p)
        \/ ProofsCount(p)
        \/ ProofsInsert(p)
        \/ ProofsInsertFails(p)

SpecProofs == InitComplaintsSpec /\ [][NextProofs]_vars

(***************************************************************************)
(* C24: a complaint has at most five proofs.                               *)
(***************************************************************************)
ProofsWithinLimit ==
    \A c \in ComplaintIds : proofCount(c) <= MAX_PROOFS_PER_COMPLAINT

\* A request whose list would take the complaint over the limit is answered
\* 400; a request answered 400 has inserted nothing.
OverLimitRejected ==
    \A p \in Procs :
        /\ (req[p].op = "proofs" /\ req[p].pc = "count"
               /\ proofCount(req[p].ref) + Len(req[p].rows) > MAX_PROOFS_PER_COMPLAINT)
             => (req'[p] # req[p] => req'[p].pc = "done" /\ req'[p].resp = 400)
        /\ (req'[p].op = "proofs" /\ req'[p].resp = 400)
             => ~\E i \in 1..Len(complaint_proofs') : complaint_proofs'[i].rid = req'[p].rid

\* C24: under any interleaving of POST /api/complaints/:id/proofs requests a
\* complaint never has more than MAX_PROOFS_PER_COMPLAINT (5) complaint_proofs
\* rows, and a request that would exceed the limit is answered 400 and inserts
\* nothing.
C24_AtMostFiveProofs == []ProofsWithinLimit /\ [][OverLimitRejected]_vars

(***************************************************************************)
(* Payout methods: PATCH /payout-methods/:id/default, DELETE               *)
(* /payout-methods/:id and POST /payout-methods/sync of routes/coins.js,   *)
(* and createRedemptionRequest called with a payout method.  The UPDATE    *)
(* and DELETE statements here choose their rows by user or by account, so  *)
(* a statement that has to wait for a row lock goes on, at READ COMMITTED, *)
(* with the rows it saw when it started: rows committed while it waited    *)
(* are not among them.  Each statement that takes row locks is therefore a *)
(* step, and the locks are held in rowLock up to the COMMIT; a statement   *)
(* proceeds when no row it chose is locked by another transaction.         *)
(***************************************************************************)
MaxPayoutRequests == 3     \* payout-method requests issued in one behaviour

BankAccount == [id |-> "ba_1", object |-> "bank_account"]
Card == [id |-> "card_1", object |-> "card"]
OtherAccount == [id |-> "x_1", object |-> "other"]

\* externalAccounts.data as Stripe may return it
ExternalAccountLists ==
    {<<>>, <<BankAccount>>, <<BankAccount, Card>>, <<OtherAccount, Card>>}

\* Stripe's errors of listExternalAccounts and the status the route answers
StripeListErrors ==
    {[type |-> "invalid_request_error", code |-> 400],
     [type |-> "api_error", code |-> 503],
     [type |-> "other", code |-> 500]}

PayoutMethodRow(id, userId, externalId, accountId) ==
    [id |-> id, user_id |-> userId, stripe_external_account_id |-> externalId,
     stripe_account_id |-> accountId, is_default |-> FALSE]

\* The table after one sync of the farmer's two external accounts.
InitPayoutMethods ==
    {PayoutMethodRow(1, "farmer", "ba_1", StripeConnectAccount("farmer")),
     PayoutMethodRow(2, "farmer", "card_1", StripeConnectAccount("farmer"))}

\* The ids the serial can hand out: every sync draws at most two.
PayoutMethodIds == 1..(Cardinality(InitPayoutMethods) + 2 * MaxPayoutRequests)

CanStartPayout(p) == req[p].pc \in {"idle", "done"} /\ issued < MaxPayoutRequests

MethodIdsIn(methods) == {m.id : m \in methods}

\* The row locks process p holds.
LockedBy(p) == {id \in DOMAIN rowLock : rowLock[id] = p}

\* No row of ids is locked by a transaction other than p's.
Free(ids, p) == \A id \in ids \cap DOMAIN rowLock : rowLock[id] \in {NoProc, p}

Lock(ids, p) == [id \in DOMAIN rowLock |-> IF id \in ids THEN p ELSE rowLock[id]]

Release(p) == [id \in DOMAIN rowLock |-> IF rowLock[id] = p THEN NoProc ELSE rowLock[id]]

\* A handler that does not clear the user's defaults.
clearDefaults_Skipped(methods, ids) == methods

\* UPDATE user_payout_methods SET is_default = FALSE WHERE user_id = $1, on
\* the rows ids the statement has locked
clearDefaults(methods, ids) ==
    {IF m.id \in ids THEN [m EXCEPT !.is_default = FALSE] ELSE m : m \in methods}

\* UPDATE user_payout_methods SET is_default = TRUE WHERE id = $1
setDefault(methods, id) ==
    {IF m.id = id THEN [m EXCEPT !.is_default = TRUE] ELSE m : m \in methods}

\* req.params.id: the id of a row of the table, or 0, which no row has.
RequestedMethodIds == MethodIdsIn(user_payout_methods) \cup {0}

\* PATCH /payout-methods/:id/default: BEGIN and the ownership SELECT.
PatchBegin(p) ==
    /\ CanStartPayout(p)
    /\ \E caller \in Users, id \in RequestedMethodIds :
          LET r == [NewRequest("set_default", caller, caller, 0) EXCEPT !.ref = id]
              methodResult == {m \in user_payout_methods : m.id = id /\ m.user_id = caller}
          IN  req' = [req EXCEPT ![p] =
                 IF methodResult = {} THEN Respond(r, 404, "Payout method not found")
                 ELSE [r EXCEPT !.pc = "clear"]]
    /\ issued' = issued + 1
    /\ UNCHANGED <<qaVars, dbVars, redeemVars, rowLock, env, deployed, faults, acked>>

\* The UPDATE ... SET is_default = FALSE starts: it chooses the user's rows
\* and locks them, or waits when another transaction holds one of them.
PatchClear(p) ==
    /\ req[p].op = "set_default" /\ req[p].pc = "clear"
    /\ LET chosen == MethodIdsIn({m \in user_payout_methods : m.user_id = req[p].user})
       IN  IF Free(chosen, p)
           THEN /\ rowLock' = Lock(chosen, p)
                /\ req' = [req EXCEPT ![p].pc = "set"]
           ELSE /\ req' = [req EXCEPT ![p].pc = "clear_wait", ![p].snap = chosen]
                /\ UNCHANGED rowLock
    /\ UNCHANGED <<qaVars, dbVars, redeemVars, env, deployed, issued, faults, acked>>

\* The waiting UPDATE goes on: of the rows it chose it locks those that still
\* exist.
PatchClearResume(p) ==
    /\ req[p].op = "set_default" /\ req[p].pc = "clear_wait"
    /\ Free(req[p].snap, p)
    /\ rowLock' = Lock(req[p].snap \cap MethodIdsIn(user_payout_methods), p)
    /\ req' = [req EXCEPT ![p].pc = "set", ![p].snap = {}]
    /\ UNCHANGED <<qaVars, dbVars, redeemVars, env, deployed, issued, faults, acked>>

\* UPDATE ... SET is_default = TRUE WHERE id = $1 and COMMIT: the writes of
\* both UPDATEs become visible and the locks are released.
PatchSet(p) ==
    /\ req[p].op = "set_default" /\ req[p].pc = "set"
    /\ Free({req[p].ref}, p)
    /\ user_payout_methods' =
           setDefault(clearDefaults(user_payout_methods, LockedBy(p)), req[p].ref)
    /\ rowLock' = Release(p)
    /\ req' = [req EXCEPT ![p] = Respond(req[p], 200, "success")]
    /\ UNCHANGED <<dbVars, redeemVars, env, deployed, issued, faults, acked,
                   complaints, complaint_proofs, payout_method_seq>>

\* A statement of the PATCH transaction throws: ROLLBACK, 500.
PatchFails(p) ==
    /\ req[p].op = "set_default" /\ req[p].pc \in {"clear", "clear_wait", "set"}
    /\ CanFail
    /\ faults' = faults + 1
    /\ rowLock' = Release(p)
    /\ req' = [req EXCEPT ![p] = Respond([req[p] EXCEPT !.snap = {}], 500, "Server Error")]
    /\ UNCHANGED <<qaVars, dbVars, redeemVars, env, deployed, issued, acked>>

\* SELECT ... COUNT(r.id) ... LEFT JOIN redemption_requests r ON
\*   r.payout_method_id = pm.id
redemption_count(id) ==
    Cardinality({i \in 1..Len(redemption_requests) :
                    redemption_requests[i].payout_method_id = id})

\* DELETE /payout-methods/:id: the check on the pool.
DeleteCheck(p) ==
    /\ CanStartPayout(p)
    /\ \E caller \in Users, id \in RequestedMethodIds :
          LET r == [NewRequest("delete_method", caller, caller, 0) EXCEPT !.ref = id]
              checkResult == {m \in user_payout_methods : m.id = id /\ m.user_id = caller}
          IN  req' = [req EXCEPT ![p] =
                 IF checkResult = {} THEN Respond(r, 404, "Payout method not found")
                 ELSE IF redemption_count(id) > 0
                      THEN Respond(r, 400, "Cannot delete payout method that is referenced")
                 ELSE [r EXCEPT !.pc = "delete"]]
    /\ issued' = issued + 1
    /\ UNCHANGED <<qaVars, dbVars, redeemVars, rowLock, env, deployed, faults, acked>>

\* DELETE FROM user_payout_methods WHERE id = $1 AND user_id = $2 on the pool;
\* it waits while another transaction holds the row.
DeleteRow(p) ==
    /\ req[p].op = "delete_method" /\ req[p].pc = "delete"
    /\ Free({req[p].ref}, p)
    /\ user_payout_methods' =
           {m \in user_payout_methods : ~(m.id = req[p].ref /\ m.user_id = req[p].user)}
    /\ req' = [req EXCEPT ![p] = Respond(req[p], 200, "success")]
    /\ UNCHANGED <<dbVars, redeemVars, rowLock, env, deployed, issued, faults, acked,
                   complaints, complaint_proofs, payout_method_seq>>

\* The DELETE throws: 500.
DeleteRowFails(p) ==
    /\ req[p].op = "delete_method" /\ req[p].pc = "delete"
    /\ CanFail
    /\ faults' = faults + 1
    /\ req' = [req EXCEPT ![p] = Respond(req[p], 500, "Server Error")]
    /\ UNCHANGED <<qaVars, dbVars, redeemVars, rowLock, env, deployed, issued, acked>>

RECURSIVE syncInsert(_, _, _, _, _)
\* for (const account of externalAccounts.data): INSERT ... ON CONFLICT
\* (user_id, stripe_external_account_id) DO UPDATE SET display_label, ...;
\* an entry that is neither bank account nor card is skipped, a conflicting
\* row keeps its id and is_default, and every INSERT draws from the serial.
syncInsert(list, methods, seq, userId, accountId) ==
    IF list = <<>> THEN [methods |-> methods, seq |-> seq]
    ELSE LET account == Head(list)
             conflict == {m \in methods : /\ m.user_id = userId
                                          /\ m.stripe_external_account_id = account.id}
         IN  IF account.object \notin {"bank_account", "card"}
             THEN syncInsert(Tail(list), methods, seq, userId, accountId)
             ELSE IF conflict # {}
             THEN syncInsert(Tail(list), methods, seq + 1, userId, accountId)
             ELSE syncInsert(Tail(list),
                             methods \cup {PayoutMethodRow(seq + 1, userId, account.id,
                                                           accountId)},
                             seq + 1, userId, accountId)

\* POST /payout-methods/sync up to BEGIN: the Stripe key, the SELECT of the
\* Connect account, listExternalAccounts returning a list.
SyncFetch(p) ==
    /\ CanStartPayout(p)
    /\ \E caller \in Users, list \in ExternalAccountLists :
          LET r == [NewRequest("sync", caller, caller, 0)
                        EXCEPT !.acct = StripeConnectAccount(caller)]
          IN  req' = [req EXCEPT ![p] =
                 IF ~env.STRIPE_SECRET_KEY THEN Respond(r, 503, "Stripe not configured")
                 ELSE IF r.acct = "none"
                      THEN Respond(r, 400, "No Stripe Connect account found")
                 ELSE [r EXCEPT !.pc = "delete", !.rows = list]]
    /\ issued' = issued + 1
    /\ UNCHANGED <<qaVars, dbVars, redeemVars, rowLock, env, deployed, faults, acked>>

\* listExternalAccounts throws: 400, 503 or 500 by the type of the error.
SyncFetchFails(p) ==
    /\ CanStartPayout(p)
    /\ env.STRIPE_SECRET_KEY
    /\ \E caller \in Users, e \in StripeListErrors :
          /\ StripeConnectAccount(caller) # "none"
          /\ req' = [req EXCEPT ![p] =
                Respond([NewRequest("sync", caller, caller, 0)
                            EXCEPT !.acct = StripeConnectAccount(caller)],
                        e.code, e.type)]
    /\ issued' = issued + 1
    /\ UNCHANGED <<qaVars, dbVars, redeemVars, rowLock, env, deployed, faults, acked>>

\* BEGIN and the start of DELETE FROM user_payout_methods WHERE
\* stripe_account_id = $1: it chooses the account's rows and locks them, or
\* waits when another transaction holds one of them.
SyncDelete(p) ==
    /\ req[p].op = "sync" /\ req[p].pc = "delete"
    /\ LET chosen == MethodIdsIn({m \in user_payout_methods :
                                     m.stripe_account_id = req[p].acct})
       IN  IF Free(chosen, p)
           THEN /\ rowLock' = Lock(chosen, p)
                /\ req' = [req EXCEPT ![p].pc = "insert"]
           ELSE /\ req' = [req EXCEPT ![p].pc = "delete_wait", ![p].snap = chosen]
                /\ UNCHANGED rowLock
    /\ UNCHANGED <<qaVars, dbVars, redeemVars, env, deployed, issued, faults, acked>>

\* The waiting DELETE goes on: of the rows it chose it deletes (and locks)
\* those that still exist.
SyncDeleteResume(p) ==
    /\ req[p].op = "sync" /\ req[p].pc = "delete_wait"
    /\ Free(req[p].snap, p)
    /\ rowLock' = Lock(req[p].snap \cap MethodIdsIn(user_payout_methods), p)
    /\ req' = [req EXCEPT ![p].pc = "insert", ![p].snap = {}]
    /\ UNCHANGED <<qaVars, dbVars, redeemVars, env, deployed, issued, faults, acked>>

\* The INSERT loop and COMMIT: the rows the DELETE locked are gone, the new
\* rows are in.  An INSERT that conflicts with a row waits for its lock.  The
\* list is not used after the loop.
SyncInsert(p) ==
    /\ req[p].op = "sync" /\ req[p].pc = "insert"
    /\ LET r == req[p]
           remaining == {m \in user_payout_methods : m.id \notin LockedBy(p)}
           externalIds == {r.rows[i].id : i \in 1..Len(r.rows)}
           conflicts == MethodIdsIn({m \in remaining :
                                        /\ m.user_id = r.user
                                        /\ m.stripe_external_account_id \in externalIds})
           result == syncInsert(r.rows, remaining, payout_method_seq, r.user, r.acct)
       IN  /\ Free(conflicts, p)
           /\ user_payout_methods' = result.methods
           /\ payout_method_seq' = result.seq
    /\ rowLock' = Release(p)
    /\ req' = [req EXCEPT ![p].pc = "list", ![p].rows = <<>>]
    /\ UNCHANGED <<dbVars, redeemVars, env, deployed, issued, faults, acked,
                   complaints, complaint_proofs>>

\* A statement of the sync transaction throws: ROLLBACK, 500.
SyncFails(p) ==
    /\ req[p].op = "sync" /\ req[p].pc \in {"delete", "delete_wait", "insert"}
    /\ CanFail
    /\ faults' = faults + 1
    /\ rowLock' = Release(p)
    /\ req' = [req EXCEPT ![p] =
           Respond([req[p] EXCEPT !.rows = <<>>, !.snap = {}], 500, "Server Error")]
    /\ UNCHANGED <<qaVars, dbVars, redeemVars, env, deployed, issued, acked>>

\* The SELECT of the user's methods on the pool and the response.
SyncList(p) ==
    /\ req[p].op = "sync" /\ req[p].pc = "list"
    /\ req' = [req EXCEPT ![p] = Respond(req[p], 200, "methods")]
    /\ UNCHANGED <<qaVars, dbVars, redeemVars, rowLock, env, deployed, issued,
                   faults, acked>>

\* That SELECT throws: 500, after the COMMIT.
SyncListFails(p) ==
    /\ req[p].op = "sync" /\ req[p].pc = "list"
    /\ CanFail
    /\ faults' = faults + 1
    /\ req' = [req EXCEPT ![p] = Respond(req[p], 500, "Server Error")]
    /\ UNCHANGED <<qaVars, dbVars, redeemVars, rowLock, env, deployed, issued, acked>>

\* POST /api/coins/redeem with a payout_method_id, createRedemptionRequest up
\* to the lock of the user row: the bounds, the look for a pending request,
\* the SELECT of the payout method.  0 stands for no payout_method_id.
RedeemCheck(p) ==
    /\ CanStartPayout(p)
    /\ \E userId \in Users, payoutMethodId \in 0..payout_method_seq :
          LET coinsRequested == REDEMPTION_MIN_COINS
              r == NewRequest("redeem", userId, userId, coinsRequested)
              payoutMethod == {m \in user_payout_methods : m.id = payoutMethodId}
          IN  req' = [req EXCEPT ![p] =
                 IF coinsRequested <= 0 THEN Respond(r, 400, "Invalid coins_requested")
                 ELSE IF coinsRequested < REDEMPTION_MIN_COINS
                         \/ coinsRequested > REDEMPTION_MAX_COINS
                      THEN Respond(r, 500, "Coins must be between")
                 ELSE IF existingPending(userId) # {}
                      THEN Respond(r, 400, "You already have a pending redemption request")
                 ELSE IF payoutMethodId # 0 /\ payoutMethod = {}
                      THEN Respond(r, 500, "Payout method not found")
                 ELSE IF payoutMethodId # 0
                         /\ \E m \in payoutMethod : m.user_id # userId
                      THEN Respond(r, 500, "Payout method does not belong to you")
                 ELSE [r EXCEPT !.pc = "lock_user", !.read = payoutMethodId]]
    /\ issued' = issued + 1
    /\ UNCHANGED <<qaVars, dbVars, redeemVars, rowLock, env, deployed, faults, acked>>

\* createRedemptionRequest from the lock of the user row: balance check, the
\* coins move to locked_coins, INSERT of the request with its
\* payout_method_id, ledger row, COMMIT.
RedeemLock(p) ==
    /\ req[p].op = "redeem" /\ req[p].pc = "lock_user"
    /\ LET r == req[p]
           currentCoins == users[r.user].coins
           currentLocked == users[r.user].locked_coins
           newCoins == currentCoins - r.amount
           newLocked == currentLocked + r.amount
           redemptionId == Len(redemption_requests) + 1
       IN  IF currentCoins < r.amount
           THEN /\ req' = [req EXCEPT ![p] = Respond(r, 400, "Insufficient coins")]
                /\ UNCHANGED <<users, redemption_requests, coin_transactions>>
           ELSE /\ users' = [users EXCEPT ![r.user].coins = newCoins,
                                          ![r.user].locked_coins = newLocked]
                /\ redemption_requests' = Append(redemption_requests,
                       [user_id |-> r.user, coins_requested |-> r.amount,
                        payout_amount_cents |-> payoutAmountCents(r.amount),
                        payout_method_id |-> r.read,
                        status |-> "pending", stripe_transfer_id |-> 0])
                /\ coin_transactions' = Append(coin_transactions,
                       LedgerRow(r.user, "redeem_request", r.amount, newCoins,
                                 "redemption_request", redemptionId, r.rid))
                /\ req' = [req EXCEPT ![p] =
                       Respond([r EXCEPT !.ref = redemptionId], 201, "created")]
    /\ UNCHANGED <<qaVars, coin_purchases, orders, notifications, transfers, succeeded,
                   rowLock, env, deployed, issued, faults, acked>>

\* createRedemptionRequest: a statement throws; ROLLBACK, the route answers 500.
RedeemFails(p) ==
    /\ req[p].op = "redeem" /\ req[p].pc = "lock_user"
    /\ CanFail
    /\ faults' = faults + 1
    /\ req' = [req EXCEPT ![p] = Respond(req[p], 500, "Server Error")]
    /\ UNCHANGED <<qaVars, dbVars, redeemVars, rowLock, env, deployed, issued, acked>>

InitPayoutSpec ==
    /\ users = [u \in Users |-> [coins |-> RedeemInitCoins, locked_coins |-> 0]]
    /\ coin_transactions = <<>>
    /\ coin_purchases = InitPurchases
    /\ orders = <<>>
    /\ notifications = <<>>
    /\ redemption_requests = <<>>
    /\ transfers = <<>>
    /\ succeeded = {}
    /\ acked = [u \in Users |-> 0]
    /\ rowLock = [id \in PayoutMethodIds |-> NoProc]
    /\ env = [STRIPE_SECRET_KEY |-> TRUE, STRIPE_WEBHOOK_SECRET |-> TRUE]
    /\ deployed = "webhooks.js"
    /\ req = [p \in Procs |-> Idle]
    /\ issued = 0
    /\ faults = 0
    /\ complaints = InitComplaints
    /\ complaint_proofs = <<>>
    /\ user_payout_methods = InitPayoutMethods
    /\ payout_method_seq = Cardinality(InitPayoutMethods)

NextPayout ==
    \E p \in Procs :
        \/ PatchBegin(p)
        \/ PatchClear(p)
        \/ PatchClearResume(p)
        \/ PatchSet(p)
        \/ PatchFails(p)
        \/ DeleteCheck(p)
        \/ DeleteRow(p)
        \/ DeleteRowFails(p)
        \/ SyncFetch(p)
        \/ SyncFetchFails(p)
        \/ SyncDelete(p)
        \/ SyncDeleteResume(p)
        \/ SyncInsert(p)
        \/ SyncFails(p)
        \/ SyncList(p)
        \/ SyncListFails(p)
        \/ RedeemCheck(p)
        \/ RedeemLock(p)
        \/ RedeemFails(p)

SpecPayout == InitPayoutSpec /\ [][NextPayout]_vars

\* The requests that write user_payout_methods; createRedemptionRequest only
\* reads it.
NextDefaults ==
    \E p \in Procs :
        \/ PatchBegin(p)
        \/ PatchClear(p)
        \/ PatchClearResume(p)
        \/ PatchSet(p)
        \/ PatchFails(p)
        \/ DeleteCheck(p)
        \/ DeleteRow(p)
        \/ DeleteRowFails(p)
        \/ SyncFetch(p)
        \/ SyncFetchFails(p)
        \/ SyncDelete(p)
        \/ SyncDeleteResume(p)
        \/ SyncInsert(p)
        \/ SyncFails(p)
        \/ SyncList(p)
        \/ SyncListFails(p)

SpecDefaults == InitPayoutSpec /\ [][NextDefaults]_vars

(***************************************************************************)
(* C25: a payout method a redemption request points to is never deleted.   *)
(***************************************************************************)
\* A row of user_payout_methods that a redemption request points to is still
\* in the table after the step.
ReferencedKept ==
    \A m \in user_payout_methods :
        redemption_count(m.id) > 0 => m.id \in MethodIdsIn(user_payout_methods')

\* C25: neither DELETE /api/coins/payout-methods/:id nor POST
\* /api/coins/payout-methods/sync removes a user_payout_methods row that a
\* redemption_requests row points to, also when the redemption request naming
\* the method is created while the delete is under way.
C25_ReferencedMethodKept == [][ReferencedKept]_vars

(***************************************************************************)
(* C26: a user has at most one default payout method.                      *)
(***************************************************************************)
DefaultsOf(u) == {m \in user_payout_methods : m.user_id = u /\ m.is_default}

AtMostOneDefault == \A u \in Users : Cardinality(DefaultsOf(u)) <= 1

\* A set-default request answered 404 has changed nothing, and a request for
\* a method that is not the caller's is answered 404.
ForeignDefaultRejected ==
    \A p \in Procs :
        /\ (req'[p] # req[p] /\ req'[p].op = "set_default" /\ req'[p].resp = 404)
             => user_payout_methods' = user_payout_methods
        /\ (req'[p] # req[p] /\ req'[p].op = "set_default" /\ req[p].pc \in {"idle", "done"}
               /\ ~\E m \in user_payout_methods :
                      m.id = req'[p].ref /\ m.user_id = req'[p].user)
             => req'[p].resp = 404 /\ req'[p].pc = "done"

C26_ForeignWitness ==
    \E p \in Procs :
        /\ req[p].op = "set_default" /\ req[p].pc = "done" /\ req[p].resp = 404
        /\ \E m \in user_payout_methods : m.id = req[p].ref /\ m.user_id # req[p].user

====
